---- MODULE Spec2Model ----
(***************************************************************************)
(* Model of the json-rpc-aggregator: the endpoint pool (pool.ts), the      *)
(* load-balancing strategies (balancer.ts), the router's retry / failover  *)
(* loop (router.ts), the background health checker (health.ts) and the     *)
(* admin operations of the server that mutate the pool (server.ts).        *)
(*                                                                         *)
(* The program runs on a single-threaded event loop, so one action is the  *)
(* code that runs between two awaits: a routeSingle call is cut at         *)
(*   await fetch(...) and await response.json()   (forwardRequest)         *)
(*   await this.sleep(retryDelay)                  (routeSingle)           *)
(* and a health probe at its await fetch(...) and await response.json().   *)
(* Date.now() values are inputs: the measured duration of an upstream call *)
(* is drawn from Durations when the call completes; lastCheck is written   *)
(* and never read by the program's decisions and is left out.              *)
(***************************************************************************)
EXTENDS Integers, Sequences, FiniteSets, TLC

\* ------------------------------------------------------------------ bounds
\* routeSingle invocations in a run (requestCount never exceeds it)
MaxRequests == 2
\* check passes of the health checker in a run
MaxPasses == 2
\* calls of the admin operations add endpoint / remove endpoint in a run
MaxAdminOps == 2
\* the largest config.loadBalancing.retries tried
MaxRetries == 2
\* iteration budget of the weighted round-robin selection loop
MaxWrrSteps == 12
\* consecutive selectEndpoint calls of one caller
MaxSelections == 4
\* calls of start() and stop() on the health checker
MaxLifecycleOps == 3

\* ----------------------------------------------------------- configuration
\* config.rpcs: the endpoints the pool is constructed with
Rpcs == << [url |-> "http://a", weight |-> 2], [url |-> "http://b", weight |-> 1] >>
Urls == {"http://a", "http://b"}
\* the urls of the longer configurations, in the order of config.rpcs
MoreUrls == << "http://a", "http://b", "http://c" >>
AllUrls == Urls \cup { MoreUrls[i] : i \in DOMAIN MoreUrls }
Weights == {1, 2}
Strategies == {"round-robin", "weighted-round-robin", "random", "latency-based"}
\* measured response times (ms); 0 is a call that completes within the clock tick
Durations == {0, 10}

\* JavaScript's null / undefined, and "the property is not there"
Null == "null"
Absent == "absent"

\* ------------------------------------------------------------- strings
\* A message is a sequence of characters, so that toLowerCase and includes
\* are computed as String.prototype computes them.
UpperChars == << "A", "E", "I", "L", "M", "N", "O", "Q", "R", "S", "T", "U", "Y" >>
LowerChars == << "a", "e", "i", "l", "m", "n", "o", "q", "r", "s", "t", "u", "y" >>

LowerChar(c) ==
    IF \E i \in 1..Len(UpperChars) : UpperChars[i] = c
    THEN LowerChars[CHOOSE i \in 1..Len(UpperChars) : UpperChars[i] = c]
    ELSE c

toLowerCase(s) == [i \in 1..Len(s) |-> LowerChar(s[i])]

includes(s, sub) ==
    \E i \in 0..(Len(s) - Len(sub)) : SubSeq(s, i + 1, i + Len(sub)) = sub

MsgRateLimit == << "r", "a", "t", "e", " ", "l", "i", "m", "i", "t" >>
MsgTooMany == << "t", "o", "o", " ", "m", "a", "n", "y", " ", "r", "e", "q", "u", "e", "s", "t", "s" >>
MsgReverted == << "r", "e", "v", "e", "r", "t", "e", "d" >>
MsgRateLimitMixed == << "R", "a", "t", "e", " ", "L", "i", "m", "i", "t", "!" >>
MsgTooManyUpper == << "4", "2", "9", " ", "T", "O", "O", " ", "M", "A", "N", "Y", " ", "R", "E", "Q", "U", "E", "S", "T", "S" >>
MsgLimitRate == << "l", "i", "m", "i", "t", " ", "r", "a", "t", "e" >>

\* --------------------------------------------------------------- pool.ts
\* The pool is a Map: a sequence of endpoint records in insertion order.
\* avgResponseTime is the exact rational num / den (den a power of 5).
Zero == [num |-> 0, den |-> 1]

IsZero(q) == q.num = 0

RECURSIVE Normalize(_)
Normalize(q) ==
    IF q.den > 1 /\ q.num % 5 = 0
    THEN Normalize([num |-> q.num \div 5, den |-> q.den \div 5])
    ELSE q

\* avg * 0.8 + sample * 0.2
Ema(avg, sample) ==
    Normalize([num |-> 4 * avg.num + sample * avg.den, den |-> 5 * avg.den])

\* a.avgResponseTime - b.avgResponseTime < 0
Less(a, b) == a.num * b.den < b.num * a.den

IndexOf(eps, url) ==
    IF \E i \in 1..Len(eps) : eps[i].url = url
    THEN CHOOSE i \in 1..Len(eps) : eps[i].url = url
    ELSE 0

has(eps, url) == IndexOf(eps, url) # 0

getEndpoint(eps, url) == eps[IndexOf(eps, url)]

NewEndpoint(rpc) ==
    [url |-> rpc.url, weight |-> rpc.weight, healthy |-> TRUE,
     avgResponseTime |-> Zero, failureCount |-> 0, successCount |-> 0,
     consecutiveFailures |-> 0, consecutiveSuccesses |-> 0]

\* an add over an existing key that wrote the new weight into the old record
addEndpointKeepsRecord(eps, rpc) ==
    IF has(eps, rpc.url)
    THEN [eps EXCEPT ![IndexOf(eps, rpc.url)].weight = rpc.weight]
    ELSE Append(eps, NewEndpoint(rpc))

\* Map.set: an existing key keeps its place, a new key goes last
addEndpoint(eps, rpc) ==
    IF has(eps, rpc.url)
    THEN [eps EXCEPT ![IndexOf(eps, rpc.url)] = NewEndpoint(rpc)]
    ELSE Append(eps, NewEndpoint(rpc))

removeEndpoint(eps, url) == SelectSeq(eps, LAMBDA e : e.url # url)

getAllEndpoints(eps) == eps

getHealthyEndpoints(eps) == SelectSeq(eps, LAMBDA e : e.healthy)

getHealthyCount(eps) == Len(getHealthyEndpoints(eps))

\* a success that writes the count back from the run of successes, over
\* what was recorded before the run
recordSuccessLosesUpdate(eps, url, responseTime) ==
    IF ~has(eps, url) THEN eps
    ELSE LET i == IndexOf(eps, url)
             e == eps[i]
         IN [eps EXCEPT ![i] =
               [e EXCEPT !.successCount = e.consecutiveSuccesses + 1,
                         !.consecutiveSuccesses = e.consecutiveSuccesses + 1,
                         !.consecutiveFailures = 0,
                         !.avgResponseTime =
                             IF IsZero(e.avgResponseTime)
                             THEN [num |-> responseTime, den |-> 1]
                             ELSE Ema(e.avgResponseTime, responseTime)]]

recordSuccess(eps, url, responseTime) ==
    IF ~has(eps, url) THEN eps
    ELSE LET i == IndexOf(eps, url)
             e == eps[i]
         IN [eps EXCEPT ![i] =
               [e EXCEPT !.successCount = e.successCount + 1,
                         !.consecutiveSuccesses = e.consecutiveSuccesses + 1,
                         !.consecutiveFailures = 0,
                         !.avgResponseTime =
                             IF IsZero(e.avgResponseTime)
                             THEN [num |-> responseTime, den |-> 1]
                             ELSE Ema(e.avgResponseTime, responseTime)]]

\* a failure that left the run of successes standing
recordFailureKeepsStreak(eps, url) ==
    IF ~has(eps, url) THEN eps
    ELSE LET i == IndexOf(eps, url)
             e == eps[i]
         IN [eps EXCEPT ![i] =
               [e EXCEPT !.failureCount = e.failureCount + 1,
                         !.consecutiveFailures = e.consecutiveFailures + 1]]

\* a failure that ends the run of successes of every endpoint
recordFailureEndsAllStreaks(eps, url) ==
    IF ~has(eps, url) THEN eps
    ELSE LET i == IndexOf(eps, url)
             e == eps[i]
         IN [k \in DOMAIN eps |->
               IF k = i
               THEN [e EXCEPT !.failureCount = e.failureCount + 1,
                              !.consecutiveFailures = e.consecutiveFailures + 1,
                              !.consecutiveSuccesses = 0]
               ELSE [eps[k] EXCEPT !.consecutiveSuccesses = 0]]

\* a failure for a url the pool does not hold that made a record for it
recordFailureCreates(eps, url) ==
    IF ~has(eps, url)
    THEN Append(eps, [NewEndpoint([url |-> url, weight |-> 1])
                         EXCEPT !.failureCount = 1, !.consecutiveFailures = 1])
    ELSE LET i == IndexOf(eps, url)
             e == eps[i]
         IN [eps EXCEPT ![i] =
               [e EXCEPT !.failureCount = e.failureCount + 1,
                         !.consecutiveFailures = e.consecutiveFailures + 1,
                         !.consecutiveSuccesses = 0]]

recordFailure(eps, url) ==
    IF ~has(eps, url) THEN eps
    ELSE LET i == IndexOf(eps, url)
             e == eps[i]
         IN [eps EXCEPT ![i] =
               [e EXCEPT !.failureCount = e.failureCount + 1,
                         !.consecutiveFailures = e.consecutiveFailures + 1,
                         !.consecutiveSuccesses = 0]]

markUnhealthy(eps, url) ==
    IF ~has(eps, url) THEN eps
    ELSE [eps EXCEPT ![IndexOf(eps, url)].healthy = FALSE]

markHealthy(eps, url) ==
    IF ~has(eps, url) THEN eps
    ELSE LET i == IndexOf(eps, url)
         IN [eps EXCEPT ![i] = [eps[i] EXCEPT !.healthy = TRUE,
                                               !.consecutiveFailures = 0]]

\* What the calls leave behind besides the records: that they were made,
\* and the lines they log.
NoHistory ==
    [recordSuccess |-> 0, recordFailure |-> 0, recovered |-> 0, unhealthy |-> 0,
     replaced |-> FALSE, deleted |-> FALSE, missed |-> FALSE]

\* (h keeps the urls the run watches: nothing is kept for any other)
Counted(h, url, what) ==
    IF url \notin DOMAIN h THEN h ELSE [h EXCEPT ![url][what] = @ + 1]

\* if (!endpoint) return: the call found no record under the url
Missed(h, url) ==
    IF url \notin DOMAIN h THEN h ELSE [h EXCEPT ![url].missed = TRUE]

\* Map.set: a record made anew; over an existing key, the old one is gone
addEndpointCalled(h, eps, url) ==
    IF url \notin DOMAIN h THEN h
    ELSE [h EXCEPT ![url].recordSuccess = 0, ![url].recordFailure = 0,
                   ![url].replaced = @ \/ has(eps, url)]

\* Map.delete returns whether the key was there
removeEndpointReturns(eps, url) == has(eps, url)

removeEndpointCalled(h, eps, url) ==
    IF removeEndpointReturns(eps, url) /\ url \in DOMAIN h
    THEN [h EXCEPT ![url].recordSuccess = 0, ![url].recordFailure = 0,
                   ![url].deleted = TRUE]
    ELSE h

\* the calls that found a record under the url
recordSuccessCalled(h, eps, url) ==
    IF ~has(eps, url) THEN Missed(h, url) ELSE Counted(h, url, "recordSuccess")

recordFailureCalled(h, eps, url) ==
    IF ~has(eps, url) THEN Missed(h, url) ELSE Counted(h, url, "recordFailure")

\* "RPC marked unhealthy" is logged by every call that finds the endpoint
markUnhealthyLogs(h, eps, url) ==
    IF ~has(eps, url) THEN Missed(h, url) ELSE Counted(h, url, "unhealthy")

\* "RPC recovered" logged by every markHealthy that finds the endpoint
markHealthyLogsAlways(h, eps, url) ==
    IF ~has(eps, url) THEN Missed(h, url) ELSE Counted(h, url, "recovered")

\* "RPC recovered" is logged when the endpoint was unhealthy (wasUnhealthy)
markHealthyLogs(h, eps, url) ==
    IF ~has(eps, url) THEN Missed(h, url)
    ELSE IF ~getEndpoint(eps, url).healthy THEN Counted(h, url, "recovered")
    ELSE h

\* ----------------------------------------------------------- balancer.ts
\* selectEndpoint gives the set of its possible outcomes: the url chosen
\* (Null for none) and the balancer's fields after the call.
Outcome(url, ci, cw) == [url |-> url, currentIndex |-> ci, currentWeight |-> cw]

\* JavaScript arrays count from 0
At(arr, i) == arr[i + 1]

\* a cursor that advances by two
RoundRobinSelectSkips(eps, ci, cw) ==
    LET healthy == getHealthyEndpoints(eps)
        n == Len(healthy)
    IN IF n = 0 THEN {Outcome(Null, ci, cw)}
       ELSE {Outcome(At(healthy, ci % n).url, (ci + 2) % n, cw)}

RoundRobinSelect(eps, ci, cw) ==
    LET healthy == getHealthyEndpoints(eps)
        n == Len(healthy)
    IN IF n = 0 THEN {Outcome(Null, ci, cw)}
       ELSE {Outcome(At(healthy, ci % n).url, (ci + 1) % n, cw)}

Max(S) == CHOOSE x \in S : \A y \in S : y <= x

\* A weight that is no number (the string "abc" in the body of POST /rpcs)
\* is the one value NotANumber, which no number of the model equals. The
\* arithmetic of JavaScript on it: Math.max gives NaN if an argument
\* converts to NaN, NaN - 1 is NaN, and every comparison with NaN is false.
NotANumber == -32768
MathMax(S) == IF NotANumber \in S THEN NotANumber ELSE Max(S)
\* A weight at or above 2^54, 1e20 say: a Number is a double, and x - 1 is
\* x again where the doubles lie four or more apart
Huge == 32767
Minus(x, y) == IF x = NotANumber THEN NotANumber ELSE IF x = Huge THEN Huge ELSE x - y
AtMost(x, y) == x # NotANumber /\ y # NotANumber /\ x <= y
AtLeast(x, y) == x # NotANumber /\ y # NotANumber /\ x >= y

\* the while (true) loop; url "diverged" when the iteration budget runs out
RECURSIVE WeightedLoop(_, _, _, _, _)
WeightedLoop(healthy, ci, cw, maxWeight, fuel) ==
    LET ci1 == (ci + 1) % Len(healthy)
        cw1 == IF ci1 = 0
               THEN (IF AtMost(Minus(cw, 1), 0) THEN maxWeight ELSE Minus(cw, 1))
               ELSE cw
    IN IF AtLeast(At(healthy, ci1).weight, cw1)
       THEN Outcome(At(healthy, ci1).url, ci1, cw1)
       ELSE IF fuel = 0
            THEN Outcome("diverged", ci1, cw1)
            ELSE WeightedLoop(healthy, ci1, cw1, maxWeight, fuel - 1)

\* the next endpoint in turn, whatever its weight
WeightedRoundRobinSelectUnweighted(eps, ci, cw) ==
    LET healthy == getHealthyEndpoints(eps)
        n == Len(healthy)
    IN IF n = 0 THEN {Outcome(Null, ci, cw)}
       ELSE {Outcome(At(healthy, (ci + 1) % n).url, (ci + 1) % n, cw)}

WeightedRoundRobinSelect(eps, ci, cw) ==
    LET healthy == getHealthyEndpoints(eps)
        n == Len(healthy)
    IN IF n = 0 THEN {Outcome(Null, ci, cw)}
       ELSE {WeightedLoop(healthy, ci, cw,
                          MathMax({healthy[i].weight : i \in 1..n}), MaxWrrSteps)}

\* Math.floor(Math.random() * healthy.length): any index
RandomSelect(eps, ci, cw) ==
    LET healthy == getHealthyEndpoints(eps)
        n == Len(healthy)
    IN IF n = 0 THEN {Outcome(Null, ci, cw)}
       ELSE {Outcome(healthy[i].url, ci, cw) : i \in 1..n}

\* a comparator that is the difference alone: no samples sorts first
CompareByDifference(a, b) ==
    IF Less(a.avgResponseTime, b.avgResponseTime) THEN -1
    ELSE IF Less(b.avgResponseTime, a.avgResponseTime) THEN 1
    ELSE 0

\* The comparator of the sort: negative, zero or positive
Compare(a, b) ==
    IF IsZero(a.avgResponseTime) THEN 1
    ELSE IF IsZero(b.avgResponseTime) THEN -1
    ELSE IF Less(a.avgResponseTime, b.avgResponseTime) THEN -1
    ELSE IF Less(b.avgResponseTime, a.avgResponseTime) THEN 1
    ELSE 0

\* sorted[0] of the stable sort: the first endpoint that no other one
\* precedes. Among endpoints without samples the comparator answers 1 both
\* ways, which leaves their order to the engine: any of them may come first.
LatencyBasedSelect(eps, ci, cw) ==
    LET healthy == getHealthyEndpoints(eps)
        n == Len(healthy)
        First(i) == \A j \in 1..n :
                       j # i => \/ Compare(healthy[i], healthy[j]) < 0
                                \/ /\ Compare(healthy[i], healthy[j]) = 0
                                   /\ i < j
                                \/ /\ Compare(healthy[i], healthy[j]) > 0
                                   /\ Compare(healthy[j], healthy[i]) > 0
    IN IF n = 0 THEN {Outcome(Null, ci, cw)}
       ELSE {Outcome(healthy[i].url, ci, cw) : i \in {k \in 1..n : First(k)}}

\* createLoadBalancer: an unknown name falls back to round-robin
selectEndpoint(strat, eps, ci, cw) ==
    CASE strat = "weighted-round-robin" -> WeightedRoundRobinSelect(eps, ci, cw)
      [] strat = "random" -> RandomSelect(eps, ci, cw)
      [] strat = "latency-based" -> LatencyBasedSelect(eps, ci, cw)
      [] OTHER -> RoundRobinSelect(eps, ci, cw)

\* ------------------------------------------------------------- router.ts
\* What an upstream can put in a response body, after JSON parsing.
NoError == [type |-> "absent", code |-> 0, hasMessage |-> FALSE, message |-> << >>]
NullError == [type |-> "null", code |-> 0, hasMessage |-> FALSE, message |-> << >>]
ErrorObject(code, msg) ==
    [type |-> "object", code |-> code, hasMessage |-> TRUE, message |-> msg]
ErrorNoMessage(code) ==
    [type |-> "object", code |-> code, hasMessage |-> FALSE, message |-> << >>]

UpstreamErrors ==
    { ErrorObject(-32000, MsgReverted), ErrorNoMessage(-32005),
      ErrorObject(-32016, MsgReverted), ErrorObject(-32000, MsgRateLimitMixed),
      ErrorObject(429, MsgTooManyUpper), ErrorObject(-32000, MsgLimitRate),
      ErrorNoMessage(-32000) }

Data(isObject, jsonrpc, result, error) ==
    [isObject |-> isObject, jsonrpc |-> jsonrpc, result |-> result, error |-> error]

\* bodies of a JSON-RPC upstream: a result, an error object, "error": null,
\* an object with neither member, and JSON that is no object
ResultBody == Data(TRUE, "2.0", "0x10", NoError)
ErrorBodies == {Data(TRUE, "2.0", Absent, e) : e \in UpstreamErrors}
UpstreamBodies ==
    {ResultBody} \cup ErrorBodies
      \cup {Data(TRUE, "2.0", Absent, NullError), Data(TRUE, "2.0", Absent, NoError),
            Data(FALSE, Absent, Absent, NoError)}

\* every error object with a negative code taken for a rate limit
isRateLimitErrorAnyCode(error) == error.code < 0

\* the message matched in the case it came in
isRateLimitErrorCaseSensitive(error) ==
    IF error.code = -32005 \/ error.code = -32016 THEN TRUE
    ELSE LET message == IF error.hasMessage THEN error.message ELSE << >>
         IN includes(message, MsgRateLimit) \/ includes(message, MsgTooMany)

\* error.message?.toLowerCase() || ""
isRateLimitError(error) ==
    IF error.code = -32005 \/ error.code = -32016 THEN TRUE
    ELSE LET message == IF error.hasMessage THEN toLowerCase(error.message) ELSE << >>
         IN includes(message, MsgRateLimit) \/ includes(message, MsgTooMany)

\* the id used as it came, without ?? null
IdAsGiven(id) == id

\* request.id ?? null
IdOrNull(id) == IF id = Absent \/ id = Null THEN Null ELSE id

createErrorResponse(id, error) == [jsonrpc |-> "2.0", error |-> error, id |-> id]

NoEndpointResponse(id, eps) ==
    createErrorResponse(IdOrNull(id),
        [code |-> -32603, message |-> "All RPC endpoints unavailable",
         data |-> [aggregator |-> TRUE, retriesExhausted |-> TRUE,
                   healthyEndpoints |-> getHealthyCount(eps)]])

ExhaustedResponse(id, lastError) ==
    createErrorResponse(IdOrNull(id),
        [code |-> -32603, message |-> "Request failed after all retries",
         data |-> [aggregator |-> TRUE, retriesExhausted |-> TRUE,
                   lastError |-> lastError]])

\* a loop that runs one attempt too many
maxAttemptsOffByOne(cfg) == cfg.retries + 2

\* line 41
maxAttempts(cfg) == cfg.retries + 1

\* ------------------------------------------------------------------ state
VARIABLES
    endpoints,      \* RpcPool.endpoints
    config,         \* the Config value object: strategy, retries, thresholds,
                    \* health checks enabled
    currentIndex,   \* the balancer's cursor (round-robin, weighted)
    currentWeight,  \* WeightedRoundRobinBalancer.currentWeight
    requestCount,   \* Router.requestCount
    successCount,   \* Router.successCount
    failureCount,   \* Router.failureCount
    calls,          \* the routeSingle invocations, by requestId
    isRunning,      \* HealthChecker.isRunning
    intervalId,     \* HealthChecker.intervalId # null
    timers,         \* how many setInterval timers of the checker are armed
    probes,         \* in-flight checkEndpoint executions
    used,           \* how many requests, check passes, admin and lifecycle
                    \* operations the run has made
    workload,       \* the run's environment: how many of each it may make,
                    \* and the profile of what clients send and upstreams do
    batch,          \* the routeBatch invocation: its elements' requestIds
                    \* and the array Promise.all resolved with
    selected,       \* what a caller of balancer.selectEndpoint() got, call
                    \* after call
    snapshot,       \* the array a caller of getAllEndpoints() or
                    \* getHealthyEndpoints() holds
    history         \* per url, what was done to the pool: the recordSuccess
                    \* and recordFailure calls since its record was made,
                    \* the lines markHealthy and markUnhealthy logged,
                    \* whether its record was ever replaced or deleted, and
                    \* whether a call found no record under it

vars == << endpoints, config, currentIndex, currentWeight, requestCount,
           successCount, failureCount, calls, isRunning, intervalId, timers,
           probes, used, workload, batch, selected, snapshot, history >>

balancerVars == << currentIndex, currentWeight >>
healthVars == << isRunning, intervalId, timers, probes >>
counterVars == << requestCount, successCount, failureCount >>
heldVars == << batch, selected, snapshot >>

\* request.id: left out, null, or a value
RequestIds == {Absent, Null, "id-7"}
RequestId == 1..MaxRequests

\* A routeSingle invocation: where it is suspended, its locals, the armed
\* abort timer of forwardRequest, the upstream's reply still on the wire,
\* the response it returned, and how many times it has called
\* forwardRequest.
NoReply == [kind |-> "none", data |-> Data(FALSE, Absent, Absent, NoError)]
IdleCall ==
    [pc |-> "idle", id |-> Absent, attempt |-> 0, url |-> Null,
     lastError |-> Null, timer |-> FALSE, reply |-> NoReply, response |-> Null,
     forwards |-> 0]

\* How a fetch fails: the connection fails, or the status is not ok
Faults == {"network error", "HTTP 500"}

\* What follows the headers of an ok response: a body that parses to data,
\* a body that does not parse, or nothing more (the upstream stalls).
Replies(bodies) ==
    {[kind |-> "json", data |-> d] : d \in bodies}
      \cup {[kind |-> k, data |-> NoReply.data] : k \in {"malformed", "stalled"}}

\* An in-flight probe is at one of its two awaits; its abort timer is armed
\* during the first only.
ProbePcs == {"fetch", "body"}
ProbeTimer(pc) == pc = "fetch"
ProbeStates == [url : Urls, pc : ProbePcs]

Budget(requests, ps, admin, lifecycle) ==
    [requests |-> requests, passes |-> ps, adminOps |-> admin,
     lifecycleOps |-> lifecycle]

Workload(budget, profile) ==
    [requests |-> budget.requests, passes |-> budget.passes,
     adminOps |-> budget.adminOps, lifecycleOps |-> budget.lifecycleOps,
     profile |-> profile]

\* a body whose jsonrpc member is not "2.0"
OldVersionBody == Data(TRUE, "1.0", "0x10", NoError)

RateLimitBody == Data(TRUE, "2.0", Absent, ErrorNoMessage(-32005))
RevertedBody == Data(TRUE, "2.0", Absent, ErrorObject(-32000, MsgReverted))

\* The profiles. "full": every id, fault, reply and response time.
\* "brief": one id, one fault, a result or a rate-limit error.
\* "admin": as brief, with every id and every weight an admin can post.
\* "probe": as brief, with a plain error body instead of the rate limit.
\* "health": as probe, with a body that is not JSON-RPC 2.0.
\* "batch": one id, one fault, and upstreams whose bodies are results.
\* "select": a caller of selectEndpoint; two response times; an admin who
\* posts any weight the server accepts.
\* "retry": one id, every fault, and bodies that are a result, a rate
\* limit, an object with neither result nor error, and no object.
\* The runs of "batch" and "retry" watch what is done to the pool for
\* every url; the others keep no history.
IdsOf(profile) == IF profile \in {"full", "admin"} THEN RequestIds ELSE {"id-7"}

FaultsOf(profile) == IF profile \in {"full", "retry"} THEN Faults ELSE {"HTTP 500"}

RepliesOf(profile) ==
    CASE profile = "full" -> Replies(UpstreamBodies)
      [] profile \in {"brief", "admin"} -> Replies({ResultBody, RateLimitBody})
      [] profile = "health" -> Replies({ResultBody, RevertedBody, OldVersionBody})
      [] profile = "batch" -> {[kind |-> "json", data |-> ResultBody]}
      [] profile = "retry" ->
            Replies({ResultBody, RateLimitBody, Data(TRUE, "2.0", Absent, NoError),
                     Data(FALSE, Absent, Absent, NoError)})
      [] OTHER -> Replies({ResultBody, RevertedBody})

WatchedOf(profile) ==
    IF profile \in {"batch", "retry"} THEN AllUrls ELSE {}

DurationsOf(profile) ==
    CASE profile = "full" -> Durations
      [] profile = "select" -> {10, 20}
      [] OTHER -> {10}

\* No batch has been routed; no snapshot has been taken.
NoBatch ==
    [pc |-> "none", first |-> 0, ids |-> << >>, settled |-> {}, responses |-> << >>]
NoSnapshot == [held |-> FALSE, refs |-> << >>]

Configs(strategies, retries, unhealthy, healthy, enabled) ==
    [strategy : strategies, retries : retries, unhealthyThreshold : unhealthy,
     healthyThreshold : healthy, enabled : enabled]

\* The state after construction from a configuration whose rpcs are one
\* of the given lists.
InitOf(pools, configs, load) ==
    /\ \E rpcs \in pools : endpoints = [i \in 1..Len(rpcs) |-> NewEndpoint(rpcs[i])]
    /\ config \in configs
    /\ currentIndex = 0
    /\ currentWeight = 0
    /\ requestCount = 0
    /\ successCount = 0
    /\ failureCount = 0
    /\ calls = [c \in RequestId |-> IdleCall]
    /\ isRunning = FALSE
    /\ intervalId = FALSE
    /\ timers = 0
    /\ probes = [p \in ProbeStates |-> 0]
    /\ used = Budget(0, 0, 0, 0)
    /\ workload = load
    /\ batch = NoBatch
    /\ selected = << >>
    /\ snapshot = NoSnapshot
    /\ history = [url \in WatchedOf(load.profile) |-> NoHistory]

InitWith(configs, load) == InitOf({Rpcs}, configs, load)

\* --------------------------------------------------- Router.routeSingle
\* Lines 44-62: one pass through the top of the loop body: select, then
\* either return the no-endpoint error or arm the timer and start the fetch.
Attempt(call, o, eps) ==
    IF o.url = Null
    THEN [call EXCEPT !.pc = "done", !.url = Null, !.timer = FALSE,
                      !.response = NoEndpointResponse(call.id, eps)]
    ELSE [call EXCEPT !.pc = "fetch", !.url = o.url, !.timer = TRUE,
                      !.forwards = @ + 1]

BeginAttempt(c, call) ==
    \E o \in selectEndpoint(config.strategy, endpoints, currentIndex, currentWeight) :
        /\ currentIndex' = o.currentIndex
        /\ currentWeight' = o.currentWeight
        /\ failureCount' = IF o.url = Null THEN failureCount + 1 ELSE failureCount
        /\ calls' = [calls EXCEPT ![c] = Attempt(call, o, endpoints)]

\* routeSingle is called (by route, or by routeBatch for one element)
StartCall(c, id) ==
    /\ used.requests < workload.requests
    /\ c = requestCount + 1
    /\ requestCount' = requestCount + 1
    /\ used' = [used EXCEPT !.requests = @ + 1]
    /\ BeginAttempt(c, [IdleCall EXCEPT !.id = id, !.attempt = 1])
    /\ UNCHANGED << endpoints, history, config, successCount, healthVars, workload, heldVars >>

\* the retries-exhausted return did not count the request as failed
AttemptFailedUncounted(c, message) ==
    LET call == calls[c]
    IN /\ endpoints' = recordFailure(endpoints, call.url)
       /\ history' = recordFailureCalled(history, endpoints, call.url)
       /\ IF call.attempt < maxAttempts(config)
          THEN calls' = [calls EXCEPT ![c] =
                     [call EXCEPT !.pc = "sleep", !.timer = FALSE,
                                  !.reply = NoReply, !.lastError = message]]
          ELSE calls' = [calls EXCEPT ![c] =
                     [call EXCEPT !.pc = "done", !.timer = FALSE, !.url = Null,
                                  !.reply = NoReply, !.lastError = message,
                                  !.response = ExhaustedResponse(call.id, message)]]
       /\ UNCHANGED << config, balancerVars, counterVars,
                       healthVars, used, workload, heldVars >>

\* a thrown forwardRequest after which the router takes the endpoint out of
\* rotation, once its run of failures is at the threshold
AttemptFailedMarksUnhealthy(c, message) ==
    LET call == calls[c]
        eps1 == recordFailure(endpoints, call.url)
        h1 == recordFailureCalled(history, endpoints, call.url)
        marks == /\ has(eps1, call.url)
                 /\ getEndpoint(eps1, call.url).consecutiveFailures
                        >= config.unhealthyThreshold
    IN /\ endpoints' = IF marks THEN markUnhealthy(eps1, call.url) ELSE eps1
       /\ history' = IF marks THEN markUnhealthyLogs(h1, eps1, call.url) ELSE h1
       /\ IF call.attempt < maxAttempts(config)
          THEN /\ calls' = [calls EXCEPT ![c] =
                     [call EXCEPT !.pc = "sleep", !.timer = FALSE,
                                  !.reply = NoReply, !.lastError = message]]
               /\ failureCount' = failureCount
          ELSE /\ calls' = [calls EXCEPT ![c] =
                     [call EXCEPT !.pc = "done", !.timer = FALSE, !.url = Null,
                                  !.reply = NoReply, !.lastError = message,
                                  !.response = ExhaustedResponse(call.id, message)]]
               /\ failureCount' = failureCount + 1
       /\ UNCHANGED << config, balancerVars, requestCount, successCount,
                       healthVars, used, workload, heldVars >>

\* a thrown forwardRequest that was not recorded against the endpoint
AttemptFailedUnrecorded(c, message) ==
    LET call == calls[c]
    IN /\ IF call.attempt < maxAttempts(config)
          THEN /\ calls' = [calls EXCEPT ![c] =
                     [call EXCEPT !.pc = "sleep", !.timer = FALSE,
                                  !.reply = NoReply, !.lastError = message]]
               /\ failureCount' = failureCount
          ELSE /\ calls' = [calls EXCEPT ![c] =
                     [call EXCEPT !.pc = "done", !.timer = FALSE, !.url = Null,
                                  !.reply = NoReply, !.lastError = message,
                                  !.response = ExhaustedResponse(call.id, message)]]
               /\ failureCount' = failureCount + 1
       /\ UNCHANGED << endpoints, history, config, balancerVars, requestCount,
                       successCount, healthVars, used, workload, heldVars >>

\* Lines 123-156: forwardRequest threw. Record the failure, then sleep
\* before the next attempt or leave the loop with the exhausted error.
AttemptFailed(c, message) ==
    LET call == calls[c]
    IN /\ endpoints' = recordFailure(endpoints, call.url)
       /\ history' = recordFailureCalled(history, endpoints, call.url)
       /\ IF call.attempt < maxAttempts(config)
          THEN /\ calls' = [calls EXCEPT ![c] =
                     [call EXCEPT !.pc = "sleep", !.timer = FALSE,
                                  !.reply = NoReply, !.lastError = message]]
               /\ failureCount' = failureCount
          ELSE /\ calls' = [calls EXCEPT ![c] =
                     [call EXCEPT !.pc = "done", !.timer = FALSE, !.url = Null,
                                  !.reply = NoReply, !.lastError = message,
                                  !.response = ExhaustedResponse(call.id, message)]]
               /\ failureCount' = failureCount + 1
       /\ UNCHANGED << config, balancerVars, requestCount, successCount,
                       healthVars, used, workload, heldVars >>

\* forwardRequest lines 176-187: the fetch settles. It rejects (network
\* error), or resolves with a status that is not ok, or resolves ok: then
\* the timer is cleared and the body is awaited.
HeadersReceived(c, reply) ==
    /\ calls' = [calls EXCEPT ![c].pc = "body", ![c].timer = FALSE,
                              ![c].reply = reply]
    /\ UNCHANGED << endpoints, history, config, balancerVars, counterVars,
                    healthVars, used, workload, heldVars >>

FetchSettles(c) ==
    /\ calls[c].pc = "fetch"
    /\ \/ \E fault \in FaultsOf(workload.profile) : AttemptFailed(c, fault)
       \/ \E reply \in RepliesOf(workload.profile) : HeadersReceived(c, reply)

\* forwardRequest line 173: the timer fires and aborts the pending await
Timeout(c) ==
    /\ calls[c].pc \in {"fetch", "body"}
    /\ calls[c].timer
    /\ AttemptFailed(c, "aborted")

\* a rate limit on the last attempt turned into the retries-exhausted error
ResponseReceivedExhausts(c, data, duration) ==
    LET call == calls[c]
        rateLimited == data.error.type = "object" /\ isRateLimitError(data.error)
        eps1 == IF rateLimited THEN recordFailure(endpoints, call.url) ELSE endpoints
        h1 == IF rateLimited THEN recordFailureCalled(history, endpoints, call.url) ELSE history
    IN IF rateLimited
       THEN /\ endpoints' = eps1
            /\ history' = h1
            /\ IF call.attempt < maxAttempts(config)
               THEN /\ calls' = [calls EXCEPT ![c] =
                          [call EXCEPT !.pc = "sleep", !.reply = NoReply]]
                    /\ failureCount' = failureCount
               ELSE /\ calls' = [calls EXCEPT ![c] =
                          [call EXCEPT !.pc = "done", !.url = Null, !.reply = NoReply,
                                       !.response = ExhaustedResponse(call.id, Null)]]
                    /\ failureCount' = failureCount + 1
            /\ UNCHANGED << config, balancerVars, requestCount, successCount,
                            healthVars, used, workload, heldVars >>
       ELSE /\ successCount' = successCount + 1
            /\ endpoints' = recordSuccess(eps1, call.url, duration)
            /\ history' = recordSuccessCalled(h1, endpoints, call.url)
            /\ calls' = [calls EXCEPT ![c] =
                  [call EXCEPT !.pc = "done", !.url = Null, !.reply = NoReply,
                               !.response = data]]
            /\ UNCHANGED << config, balancerVars, requestCount, failureCount,
                            healthVars, used, workload, heldVars >>

\* a rate limit on the last attempt counted as a failed request and, being
\* returned to the client, as a successful one
ResponseReceivedCountsBoth(c, data, duration) ==
    LET call == calls[c]
        rateLimited == data.error.type = "object" /\ isRateLimitError(data.error)
        eps1 == IF rateLimited THEN recordFailure(endpoints, call.url) ELSE endpoints
        h1 == IF rateLimited THEN recordFailureCalled(history, endpoints, call.url) ELSE history
    IN IF rateLimited /\ call.attempt < maxAttempts(config)
       THEN /\ endpoints' = eps1
            /\ history' = h1
            /\ calls' = [calls EXCEPT ![c] =
                  [call EXCEPT !.pc = "sleep", !.reply = NoReply]]
            /\ UNCHANGED << config, balancerVars, counterVars, healthVars,
                            used, workload, heldVars >>
       ELSE /\ successCount' = successCount + 1
            /\ failureCount' = IF rateLimited THEN failureCount + 1 ELSE failureCount
            /\ endpoints' = recordSuccess(eps1, call.url, duration)
            /\ history' = recordSuccessCalled(h1, endpoints, call.url)
            /\ calls' = [calls EXCEPT ![c] =
                  [call EXCEPT !.pc = "done", !.url = Null, !.reply = NoReply,
                               !.response = data]]
            /\ UNCHANGED << config, balancerVars, requestCount,
                            healthVars, used, workload, heldVars >>

\* a rate limit on the last attempt recorded as a success first and as a
\* failure after it, which leaves the failure streak standing
ResponseReceivedFailureLast(c, data, duration) ==
    LET call == calls[c]
        rateLimited == data.error.type = "object" /\ isRateLimitError(data.error)
        eps1 == IF rateLimited THEN recordFailure(endpoints, call.url) ELSE endpoints
        h1 == IF rateLimited THEN recordFailureCalled(history, endpoints, call.url) ELSE history
    IN IF rateLimited /\ call.attempt < maxAttempts(config)
       THEN /\ endpoints' = eps1
            /\ history' = h1
            /\ calls' = [calls EXCEPT ![c] =
                  [call EXCEPT !.pc = "sleep", !.reply = NoReply]]
            /\ UNCHANGED << config, balancerVars, counterVars, healthVars,
                            used, workload, heldVars >>
       ELSE /\ successCount' = successCount + 1
            /\ endpoints' = IF rateLimited
                            THEN recordFailure(recordSuccess(endpoints, call.url, duration),
                                               call.url)
                            ELSE recordSuccess(endpoints, call.url, duration)
            /\ history' = recordSuccessCalled(h1, endpoints, call.url)
            /\ calls' = [calls EXCEPT ![c] =
                  [call EXCEPT !.pc = "done", !.url = Null, !.reply = NoReply,
                               !.response = data]]
            /\ UNCHANGED << config, balancerVars, requestCount, failureCount,
                            healthVars, used, workload, heldVars >>

\* Lines 63-121: forwardRequest returned a body
ResponseReceived(c, data, duration) ==
    LET call == calls[c]
        rateLimited == data.error.type = "object" /\ isRateLimitError(data.error)
        eps1 == IF rateLimited THEN recordFailure(endpoints, call.url) ELSE endpoints
        h1 == IF rateLimited THEN recordFailureCalled(history, endpoints, call.url) ELSE history
    IN IF rateLimited /\ call.attempt < maxAttempts(config)
       THEN /\ endpoints' = eps1
            /\ history' = h1
            /\ calls' = [calls EXCEPT ![c] =
                  [call EXCEPT !.pc = "sleep", !.reply = NoReply]]
            /\ UNCHANGED << config, balancerVars, counterVars, healthVars,
                            used, workload, heldVars >>
       ELSE /\ successCount' = successCount + 1
            /\ endpoints' = recordSuccess(eps1, call.url, duration)
            /\ history' = recordSuccessCalled(h1, endpoints, call.url)
            /\ calls' = [calls EXCEPT ![c] =
                  [call EXCEPT !.pc = "done", !.url = Null, !.reply = NoReply,
                               !.response = data]]
            /\ UNCHANGED << config, balancerVars, requestCount, failureCount,
                            healthVars, used, workload, heldVars >>

\* forwardRequest lines 189-200: response.json() settles. It rejects
\* (malformed or truncated body), or gives data that is checked. A stalled
\* body never settles.
BodySettles(c) ==
    LET reply == calls[c].reply
    IN /\ calls[c].pc = "body"
       /\ reply.kind # "stalled"
       /\ IF reply.kind = "malformed"
          THEN AttemptFailed(c, "JSON Parse error")
          ELSE IF ~reply.data.isObject
          THEN AttemptFailed(c, "Invalid JSON-RPC response: not an object")
          ELSE IF reply.data.result = Absent /\ reply.data.error.type = "absent"
          THEN AttemptFailed(c, "Invalid JSON-RPC response: missing result or error")
          ELSE \E duration \in DurationsOf(workload.profile) : ResponseReceived(c, reply.data, duration)

\* Lines 82 / 141: the retry delay is over; attempt++ and the next pass
RetryDelayOver(c) ==
    /\ calls[c].pc = "sleep"
    /\ BeginAttempt(c, [calls[c] EXCEPT !.attempt = calls[c].attempt + 1])
    /\ UNCHANGED << endpoints, history, config, requestCount, successCount,
                    healthVars, used, workload, heldVars >>

\* the steps of the routeSingle invocations under way
RouterSteps ==
    \/ \E c \in RequestId : FetchSettles(c)
    \/ \E c \in RequestId : Timeout(c)
    \/ \E c \in RequestId : BodySettles(c)
    \/ \E c \in RequestId : RetryDelayOver(c)

RouterNext ==
    \/ \E c \in RequestId, id \in IdsOf(workload.profile) : StartCall(c, id)
    \/ RouterSteps

\* ---------------------------------------------------- Router.routeBatch
\* requests.map(req => this.routeSingle(req)): the elements' routeSingle
\* invocations are started one after the other, in array order, each
\* running up to its first await, before anything else runs. The result
\* is every way the selections can go.
RECURSIVE Dispatch(_, _, _, _, _)
Dispatch(ids, i, strategy, eps, st) ==
    IF i > Len(ids) THEN {st}
    ELSE UNION {
        Dispatch(ids, i + 1, strategy, eps,
            [requestCount |-> st.requestCount + 1,
             currentIndex |-> o.currentIndex,
             currentWeight |-> o.currentWeight,
             failureCount |-> IF o.url = Null THEN st.failureCount + 1
                              ELSE st.failureCount,
             calls |-> [st.calls EXCEPT ![st.requestCount + 1] =
                          Attempt([IdleCall EXCEPT !.id = ids[i], !.attempt = 1],
                                  o, eps)]])
        : o \in selectEndpoint(strategy, eps, st.currentIndex, st.currentWeight) }

\* the request bodies that are arrays: every sequence of ids up to a length
Batches(ids, most) == UNION {[1..n -> ids] : n \in 0..most}

\* route is called with an array: the elements are dispatched and
\* Promise.all is given their promises
routeBatch(ids) ==
    /\ batch.pc = "none"
    /\ used.requests + Len(ids) <= workload.requests
    /\ \E st \in Dispatch(ids, 1, config.strategy, endpoints,
                   [requestCount |-> requestCount, currentIndex |-> currentIndex,
                    currentWeight |-> currentWeight, failureCount |-> failureCount,
                    calls |-> calls]) :
            /\ requestCount' = st.requestCount
            /\ currentIndex' = st.currentIndex
            /\ currentWeight' = st.currentWeight
            /\ failureCount' = st.failureCount
            /\ calls' = st.calls
    /\ batch' = [pc |-> "pending", first |-> requestCount + 1, ids |-> ids,
                 settled |-> {}, responses |-> [i \in 1..Len(ids) |-> Null]]
    /\ used' = [used EXCEPT !.requests = @ + Len(ids)]
    /\ UNCHANGED << endpoints, history, config, successCount, healthVars, workload,
                    selected, snapshot >>

\* the routeSingle invocation of the i-th element of the batch
ElementCall(b, i) == b.first + i - 1

\* the elements' values were appended as they arrived
ElementSettlesInArrivalOrder(i) ==
    LET c == ElementCall(batch, i)
        settled == batch.settled \cup {i}
    IN /\ batch.pc = "pending"
       /\ i \in DOMAIN batch.ids \ batch.settled
       /\ calls[c].pc = "done"
       /\ batch' = [batch EXCEPT
                !.settled = settled,
                !.responses[Cardinality(settled)] = calls[c].response,
                !.pc = IF settled = DOMAIN batch.ids THEN "done" ELSE @]
       /\ UNCHANGED << endpoints, history, config, balancerVars, counterVars, calls,
                       healthVars, used, workload, selected, snapshot >>

\* the batch was over as soon as an element ended in an aggregator error
ElementSettlesFailFast(i) ==
    LET c == ElementCall(batch, i)
        settled == batch.settled \cup {i}
    IN /\ batch.pc = "pending"
       /\ i \in DOMAIN batch.ids \ batch.settled
       /\ calls[c].pc = "done"
       /\ batch' = [batch EXCEPT
                !.settled = settled,
                !.responses[i] = calls[c].response,
                !.pc = IF settled = DOMAIN batch.ids
                          \/ "data" \in DOMAIN calls[c].response.error
                       THEN "done" ELSE @]
       /\ UNCHANGED << endpoints, history, config, balancerVars, counterVars, calls,
                       healthVars, used, workload, selected, snapshot >>

\* Promise.all: the promise of the i-th element is fulfilled with the
\* response routeSingle returned; the value goes to position i of the
\* result, and the result is delivered when no element is outstanding.
ElementSettles(i) ==
    LET c == ElementCall(batch, i)
        settled == batch.settled \cup {i}
    IN /\ batch.pc = "pending"
       /\ i \in DOMAIN batch.ids \ batch.settled
       /\ calls[c].pc = "done"
       /\ batch' = [batch EXCEPT
                !.settled = settled,
                !.responses[i] = calls[c].response,
                !.pc = IF settled = DOMAIN batch.ids THEN "done" ELSE @]
       /\ UNCHANGED << endpoints, history, config, balancerVars, counterVars, calls,
                       healthVars, used, workload, selected, snapshot >>

\* Promise.all of an empty array is fulfilled with an empty array
EmptyBatchSettles ==
    /\ batch.pc = "pending"
    /\ batch.ids = << >>
    /\ batch' = [batch EXCEPT !.pc = "done"]
    /\ UNCHANGED << endpoints, history, config, balancerVars, counterVars, calls,
                    healthVars, used, workload, selected, snapshot >>

BatchNext ==
    \/ \E ids \in Batches(IdsOf(workload.profile), workload.requests) : routeBatch(ids)
    \/ \E i \in RequestId : ElementSettles(i)
    \/ EmptyBatchSettles

\* ------------------------------------------- a caller of selectEndpoint
\* the call that never returns keeps the event loop: nothing else runs
Hung == \E i \in DOMAIN selected : selected[i].url = "diverged"

\* balancer.selectEndpoint() is called; the caller keeps what it got, with
\* the healthy endpoints as they were at the call
Select ==
    /\ ~Hung
    /\ used.requests < workload.requests
    /\ \E o \in selectEndpoint(config.strategy, endpoints, currentIndex, currentWeight) :
          /\ currentIndex' = o.currentIndex
          /\ currentWeight' = o.currentWeight
          /\ selected' = Append(selected,
                [url |-> o.url, healthy |-> getHealthyEndpoints(endpoints)])
    /\ used' = [used EXCEPT !.requests = @ + 1]
    /\ UNCHANGED << endpoints, history, config, counterVars, calls, healthVars, workload,
                    batch, snapshot >>

\* pool.markHealthy(url) or pool.markUnhealthy(url) is called
Marked(url, healthy) ==
    /\ ~Hung
    /\ used.passes < workload.passes
    /\ endpoints' = IF healthy THEN markHealthy(endpoints, url)
                    ELSE markUnhealthy(endpoints, url)
    /\ history' = IF healthy THEN markHealthyLogs(history, endpoints, url)
                  ELSE markUnhealthyLogs(history, endpoints, url)
    /\ used' = [used EXCEPT !.passes = @ + 1]
    /\ UNCHANGED << config, balancerVars, counterVars, calls, healthVars, workload,
                    heldVars >>

\* pool.recordSuccess(url, responseTime) is called
Sampled(url, responseTime) ==
    /\ ~Hung
    /\ used.passes < workload.passes
    /\ endpoints' = recordSuccess(endpoints, url, responseTime)
    /\ history' = recordSuccessCalled(history, endpoints, url)
    /\ used' = [used EXCEPT !.passes = @ + 1]
    /\ UNCHANGED << config, balancerVars, counterVars, calls, healthVars, workload,
                    heldVars >>

\* pool.getAllEndpoints() or pool.getHealthyEndpoints() is called and the
\* caller keeps the array: Array.from(...values()) and its filter are new
\* arrays of the pool's own endpoint objects. Each element is the object
\* (by its url while the pool still holds it) and its fields as they were
\* when the array was made.
TakeSnapshot(healthyOnly) ==
    LET array == IF healthyOnly THEN getHealthyEndpoints(endpoints)
                 ELSE getAllEndpoints(endpoints)
    IN /\ ~Hung
       /\ ~snapshot.held
       /\ snapshot' = [held |-> TRUE,
                       refs |-> [i \in DOMAIN array |->
                                   [url |-> array[i].url, live |-> TRUE,
                                    object |-> array[i], taken |-> array[i]]]]
       /\ UNCHANGED << endpoints, history, config, balancerVars, counterVars, calls,
                       healthVars, used, workload, batch, selected >>

\* what the holder of the array reads from its i-th element now
Observed(snap, eps, i) ==
    IF snap.refs[i].live THEN getEndpoint(eps, snap.refs[i].url)
    ELSE snap.refs[i].object

\* ------------------------------------------------------------ health.ts
AddProbe(ps, url) == [ps EXCEPT ![[url |-> url, pc |-> "fetch"]] = @ + 1]

\* checkAll: checkEndpoint is started for every endpoint of the pool; each
\* runs up to its await fetch(...)
RECURSIVE StartProbes(_, _)
StartProbes(ps, eps) ==
    IF eps = << >> THEN ps
    ELSE StartProbes(AddProbe(ps, Head(eps).url), Tail(eps))

\* a pass over the endpoints in rotation only
checkAllHealthyOnly(ps, eps) == StartProbes(ps, getHealthyEndpoints(eps))

checkAll(ps, eps) == StartProbes(ps, getAllEndpoints(eps))

\* a start() that does not look at isRunning
StartAgain ==
    /\ used.lifecycleOps < workload.lifecycleOps
    /\ IF ~config.enabled
       THEN UNCHANGED << isRunning, intervalId, timers, probes >>
            /\ used' = [used EXCEPT !.lifecycleOps = @ + 1]
       ELSE /\ used.passes < workload.passes
            /\ isRunning' = TRUE
            /\ probes' = checkAll(probes, endpoints)
            /\ intervalId' = TRUE
            /\ timers' = timers + 1
            /\ used' = [used EXCEPT !.lifecycleOps = @ + 1, !.passes = @ + 1]
    /\ UNCHANGED << endpoints, history, config, balancerVars, counterVars, calls, workload, heldVars >>

\* start(): nothing when disabled or already running
Start ==
    /\ used.lifecycleOps < workload.lifecycleOps
    /\ IF ~config.enabled \/ isRunning
       THEN UNCHANGED << isRunning, intervalId, timers, probes >>
            /\ used' = [used EXCEPT !.lifecycleOps = @ + 1]
       ELSE /\ used.passes < workload.passes
            /\ isRunning' = TRUE
            /\ probes' = checkAll(probes, endpoints)
            /\ intervalId' = TRUE
            /\ timers' = timers + 1
            /\ used' = [used EXCEPT !.lifecycleOps = @ + 1, !.passes = @ + 1]
    /\ UNCHANGED << endpoints, history, config, balancerVars, counterVars, calls, workload, heldVars >>

\* a stop() that forgets the timer without clearing it
StopKeepsTimer ==
    /\ used.lifecycleOps < workload.lifecycleOps
    /\ intervalId' = FALSE
    /\ timers' = timers
    /\ isRunning' = FALSE
    /\ used' = [used EXCEPT !.lifecycleOps = @ + 1]
    /\ UNCHANGED << endpoints, history, config, balancerVars, counterVars, calls,
                    probes, workload, heldVars >>

\* stop(): clearInterval for the timer intervalId holds, if it holds one
Stop ==
    /\ used.lifecycleOps < workload.lifecycleOps
    /\ intervalId' = FALSE
    /\ timers' = IF intervalId THEN timers - 1 ELSE timers
    /\ isRunning' = FALSE
    /\ used' = [used EXCEPT !.lifecycleOps = @ + 1]
    /\ UNCHANGED << endpoints, history, config, balancerVars, counterVars, calls,
                    probes, workload, heldVars >>

\* the setInterval callback of a timer that is armed
Tick ==
    /\ timers > 0
    /\ used.passes < workload.passes
    /\ probes' = checkAll(probes, endpoints)
    /\ used' = [used EXCEPT !.passes = @ + 1]
    /\ UNCHANGED << endpoints, history, config, balancerVars, counterVars, calls,
                    isRunning, intervalId, timers, workload, heldVars >>

\* the success predicate of a probe: lines 99-104
InvalidProbeResponse(data) ==
    \/ ~data.isObject
    \/ data.jsonrpc # "2.0"
    \/ (data.error.type = "object" /\ data.result = Absent)

\* lines 106-114
ProbeSucceeded(cfg, eps, url, responseTime) ==
    LET eps1 == recordSuccess(eps, url, responseTime)
    IN IF ~has(eps1, url) THEN eps1
       ELSE IF getEndpoint(eps1, url).consecutiveSuccesses >= cfg.healthyThreshold
       THEN markHealthy(eps1, url)
       ELSE eps1

\* an endpoint marked unhealthy at its first failed probe
ProbeFailedEager(cfg, eps, url) ==
    LET eps1 == recordFailure(eps, url)
    IN IF ~has(eps1, url) THEN eps1 ELSE markUnhealthy(eps1, url)

\* an endpoint marked unhealthy one failure late
ProbeFailedLate(cfg, eps, url) ==
    LET eps1 == recordFailure(eps, url)
    IN IF ~has(eps1, url) THEN eps1
       ELSE IF getEndpoint(eps1, url).consecutiveFailures > cfg.unhealthyThreshold
       THEN markUnhealthy(eps1, url)
       ELSE eps1

\* lines 116-126
ProbeFailed(cfg, eps, url) ==
    LET eps1 == recordFailure(eps, url)
    IN IF ~has(eps1, url) THEN eps1
       ELSE IF getEndpoint(eps1, url).consecutiveFailures >= cfg.unhealthyThreshold
       THEN markUnhealthy(eps1, url)
       ELSE eps1

\* the calls of lines 106-114 and what they log: recordSuccess, then
\* markHealthy if the run of successes, one longer now, is at the threshold
ProbeSucceededCalled(cfg, eps, url, responseTime, h) ==
    LET h1 == recordSuccessCalled(h, eps, url)
    IN IF ~has(eps, url) THEN h1
       ELSE IF getEndpoint(eps, url).consecutiveSuccesses + 1 >= cfg.healthyThreshold
       THEN markHealthyLogs(h1, eps, url)
       ELSE h1

\* the calls of lines 116-126 and what they log: recordFailure, then
\* markUnhealthy if the run of failures, one longer now, is at the threshold
ProbeFailedCalled(cfg, eps, url, h) ==
    LET h1 == recordFailureCalled(h, eps, url)
    IN IF ~has(eps, url) THEN h1
       ELSE IF getEndpoint(eps, url).consecutiveFailures + 1 >= cfg.unhealthyThreshold
       THEN markUnhealthyLogs(h1, eps, url)
       ELSE h1

ProbeFrame ==
    UNCHANGED << config, balancerVars, counterVars, calls, isRunning,
                 intervalId, timers, used, workload, heldVars >>

\* the probe's fetch settles: rejected, a status that is not ok, or ok,
\* after which the timer is cleared and the body awaited
ProbeFetchSettles(url) ==
    LET p == [url |-> url, pc |-> "fetch"]
        q == [url |-> url, pc |-> "body"]
    IN /\ probes[p] > 0
       /\ \/ /\ probes' = [probes EXCEPT ![p] = @ - 1]
             /\ endpoints' = ProbeFailed(config, endpoints, url)
             /\ history' = ProbeFailedCalled(config, endpoints, url, history)
          \/ /\ probes' = [probes EXCEPT ![p] = @ - 1, ![q] = @ + 1]
             /\ UNCHANGED << endpoints, history >>
       /\ ProbeFrame

\* the abort timer of a probe fires while it is armed
ProbeTimeout(p) ==
    /\ probes[p] > 0
    /\ ProbeTimer(p.pc)
    /\ probes' = [probes EXCEPT ![p] = @ - 1]
    /\ endpoints' = ProbeFailed(config, endpoints, p.url)
    /\ history' = ProbeFailedCalled(config, endpoints, p.url, history)
    /\ ProbeFrame

\* the probe's response.json() settles (a stalled body never does)
ProbeBodySettles(url) ==
    LET q == [url |-> url, pc |-> "body"]
    IN /\ probes[q] > 0
       /\ probes' = [probes EXCEPT ![q] = @ - 1]
       /\ \E reply \in RepliesOf(workload.profile),
             responseTime \in DurationsOf(workload.profile) :
             /\ reply.kind # "stalled"
             /\ endpoints' = IF reply.kind = "malformed" \/ InvalidProbeResponse(reply.data)
                             THEN ProbeFailed(config, endpoints, url)
                             ELSE ProbeSucceeded(config, endpoints, url, responseTime)
             /\ history' = IF reply.kind = "malformed" \/ InvalidProbeResponse(reply.data)
                           THEN ProbeFailedCalled(config, endpoints, url, history)
                           ELSE ProbeSucceededCalled(config, endpoints, url,
                                                     responseTime, history)
       /\ ProbeFrame

HealthNext ==
    \/ Start
    \/ Stop
    \/ Tick
    \/ \E url \in Urls : ProbeFetchSettles(url)
    \/ \E p \in ProbeStates : ProbeTimeout(p)
    \/ \E url \in Urls : ProbeBodySettles(url)

\* ------------------------------------------------------------ server.ts
\* Map.set() with a new object and Map.delete() both drop the pool's
\* reference to the object stored under the url: an array handed out earlier
\* keeps that object as it was, and the pool no longer writes to it.
Orphan(snap, eps, url) ==
    [snap EXCEPT !.refs =
        [i \in DOMAIN @ |->
            IF @[i].url = url /\ @[i].live
            THEN [@[i] EXCEPT !.live = FALSE, !.object = getEndpoint(eps, url)]
            ELSE @[i]]]

\* POST /rpcs with body {url, weight}: weight || 1 (0: no weight given)
BodyWeights == {0} \cup Weights

\* body.weight is not checked: a negative number and a string that is no
\* number are taken as they are
AnyBodyWeights == {2, -1, NotANumber}

\* integer weights, one of them beyond the integers that a Number counts
HugeBodyWeights == {2, Huge}

WeightsOf(profile) ==
    CASE profile \in {"full", "admin"} -> BodyWeights
      [] profile = "select" -> AnyBodyWeights
      [] profile = "weighted" -> HugeBodyWeights
      [] OTHER -> {0}

handleAddRpc(url, weight) ==
    /\ used.adminOps < workload.adminOps
    /\ endpoints' = addEndpoint(endpoints,
                        [url |-> url, weight |-> IF weight = 0 THEN 1 ELSE weight])
    /\ history' = addEndpointCalled(history, endpoints, url)
    /\ used' = [used EXCEPT !.adminOps = @ + 1]
    /\ snapshot' = Orphan(snapshot, endpoints, url)
    /\ UNCHANGED << config, balancerVars, counterVars, calls, healthVars, workload,
                    batch, selected >>

\* DELETE /rpcs/<url>
handleRemoveRpc(url) ==
    /\ used.adminOps < workload.adminOps
    /\ endpoints' = removeEndpoint(endpoints, url)
    /\ history' = removeEndpointCalled(history, endpoints, url)
    /\ used' = [used EXCEPT !.adminOps = @ + 1]
    /\ snapshot' = Orphan(snapshot, endpoints, url)
    /\ UNCHANGED << config, balancerVars, counterVars, calls, healthVars, workload,
                    batch, selected >>

\* the admin operations on any url of the longer configurations
AnyAdminNext ==
    \/ \E i \in DOMAIN MoreUrls, weight \in WeightsOf(workload.profile) :
          ~Hung /\ handleAddRpc(MoreUrls[i], weight)
    \/ \E i \in DOMAIN MoreUrls : ~Hung /\ handleRemoveRpc(MoreUrls[i])

AdminNext ==
    \/ \E url \in Urls, weight \in WeightsOf(workload.profile) : handleAddRpc(url, weight)
    \/ \E url \in Urls : handleRemoveRpc(url)

\* ---------------------------------------------------------- specifications
Next == RouterNext \/ HealthNext \/ AdminNext

Thresholds == {1, 2}

\* concurrent requests against the pool as constructed
RouterInit ==
    InitWith(Configs(Strategies, {1}, {2}, {2}, {TRUE}),
             Workload(Budget(MaxRequests, 0, 0, 0), "brief"))
RouterSpec == RouterInit /\ [][RouterNext]_vars

\* concurrent requests under one strategy
StatsInit ==
    InitWith(Configs({"round-robin"}, {1}, {2}, {2}, {TRUE}),
             Workload(Budget(MaxRequests, 0, 0, 0), "brief"))
StatsSpec == StatsInit /\ [][RouterNext]_vars

\* one request, with every id, fault and reply
SingleInit ==
    InitWith(Configs(Strategies, 0..MaxRetries, {2}, {2}, {TRUE}),
             Workload(Budget(1, 0, 0, 0), "full"))
SingleSpec == SingleInit /\ [][RouterNext]_vars

\* one request while admin operations change the pool
\* The configurations of one to three endpoints with weights of Weights
Pools ==
    UNION { { [i \in 1..n |-> [url |-> MoreUrls[i], weight |-> w[i]]] :
                w \in [1..n -> Weights] } : n \in DOMAIN MoreUrls }

\* A caller that calls selectEndpoint on a pool that is changed in between
\* by calls of markHealthy, markUnhealthy and recordSuccess (passes count
\* them) and by one admin operation. The strategies that keep a cursor get
\* up to MaxSelections calls, the others two.
SelectNext ==
    \/ Select
    \/ \E i \in DOMAIN MoreUrls, healthy \in BOOLEAN : Marked(MoreUrls[i], healthy)
    \/ \E i \in DOMAIN MoreUrls, responseTime \in DurationsOf(workload.profile) :
          Sampled(MoreUrls[i], responseTime)
    \/ AnyAdminNext
SelectInit ==
    \/ InitOf(Pools,
              Configs({"round-robin", "weighted-round-robin"}, {1}, {2}, {2}, {TRUE}),
              Workload(Budget(MaxSelections, 1, 1, 0), "select"))
    \/ InitOf(Pools, Configs({"random"}, {1}, {2}, {2}, {TRUE}),
              Workload(Budget(2, 1, 1, 0), "select"))
    \/ InitOf(Pools, Configs({"latency-based"}, {1}, {2}, {2}, {TRUE}),
              Workload(Budget(2, 2, 1, 0), "select"))
SelectSpec == SelectInit /\ [][SelectNext]_vars

\* The weighted round-robin balancer alone, on a pool whose weights are
\* integers of 1 and more at all times, while endpoints are marked, added
\* and removed between the calls
WeightedNext ==
    \/ Select
    \/ \E i \in DOMAIN MoreUrls, healthy \in BOOLEAN : Marked(MoreUrls[i], healthy)
    \/ AnyAdminNext
WeightedInit ==
    InitOf(Pools, Configs({"weighted-round-robin"}, {1}, {2}, {2}, {TRUE}),
           Workload(Budget(MaxSelections, 1, 1, 0), "weighted"))
WeightedSpec == WeightedInit /\ [][WeightedNext]_vars

\* A holder of the array of getAllEndpoints() or getHealthyEndpoints(),
\* and a pool that is changed afterwards: two calls of markHealthy,
\* markUnhealthy or recordSuccess and one admin operation.
SnapshotNext ==
    \/ \E healthyOnly \in BOOLEAN : TakeSnapshot(healthyOnly)
    \/ \E i \in DOMAIN MoreUrls, healthy \in BOOLEAN : Marked(MoreUrls[i], healthy)
    \/ \E i \in DOMAIN MoreUrls, responseTime \in DurationsOf(workload.profile) :
          Sampled(MoreUrls[i], responseTime)
    \/ AnyAdminNext
SnapshotInit ==
    InitOf(Pools, Configs({"round-robin"}, {1}, {2}, {2}, {TRUE}),
           Workload(Budget(0, 2, 1, 0), "select"))
SnapshotSpec == SnapshotInit /\ [][SnapshotNext]_vars

\* A freshly constructed weighted round-robin balancer on a pool that stays
\* as configured: twice MaxSelections consecutive calls.
FairInit ==
    InitOf(Pools, Configs({"weighted-round-robin"}, {1}, {2}, {2}, {TRUE}),
           Workload(Budget(2 * MaxSelections, 0, 0, 0), "select"))
FairSpec == FairInit /\ [][Select]_vars

\* A pool of one endpoint or two, one batch of up to MaxRequests elements,
\* and an admin who adds or removes an endpoint while it is under way.
BatchInit ==
    InitOf({SubSeq(Rpcs, 1, 1), Rpcs},
           Configs({"round-robin"}, {1}, {2}, {2}, {TRUE}),
           Workload(Budget(MaxRequests, 0, 1, 0), "batch"))
BatchSpec == BatchInit /\ [][RouterSteps \/ BatchNext \/ AdminNext]_vars

\* one request with up to MaxRetries retries against upstreams that fail in
\* every way, and an admin who adds or removes an endpoint meanwhile
RetryInit ==
    InitWith(Configs({"round-robin"}, 0..MaxRetries, {2}, {2}, {TRUE}),
             Workload(Budget(1, 0, 1, 0), "retry"))
RetrySpec == RetryInit /\ [][RouterNext \/ AdminNext]_vars

AdminInit ==
    InitWith(Configs(Strategies, {1}, {2}, {2}, {TRUE}),
             Workload(Budget(1, 0, MaxAdminOps, 0), "admin"))
AdminSpec == AdminInit /\ [][RouterNext \/ AdminNext]_vars

\* one request and one admin operation while the health checker runs:
\* unhealthy after two consecutive failures, healthy after one success
Init ==
    InitWith(Configs({"round-robin"}, {1}, {2}, {1}, {TRUE}),
             Workload(Budget(1, MaxPasses, 1, 1), "probe"))
Spec == Init /\ [][Next]_vars

\* The same with upstreams that either fail the fetch or answer with a
\* result: the calls made on the pool by one request's attempts, by the
\* probes of the passes and by one admin operation, in every order.
PoolInit ==
    InitWith(Configs({"round-robin"}, {1}, {2}, {1}, {TRUE}),
             Workload(Budget(1, MaxPasses, 1, 1), "batch"))
PoolSpec == PoolInit /\ [][Next]_vars

\* A request whose MaxRetries + 1 attempts may all fail while the health
\* checker is disabled, or enabled with two passes to make, and an admin
\* operation.
RotationInit ==
    InitWith(Configs({"round-robin"}, {MaxRetries}, {2}, {1}, BOOLEAN),
             Workload(Budget(1, 2, 1, 1), "batch"))
RotationSpec == RotationInit /\ [][Next]_vars

\* the health checker alone, enabled or not, started and stopped up to
\* MaxLifecycleOps times while its passes are under way
LifecycleInit ==
    InitWith(Configs({"round-robin"}, {1}, {2}, {1}, BOOLEAN),
             Workload(Budget(0, MaxPasses, 0, MaxLifecycleOps), "probe"))
LifecycleSpec == LifecycleInit /\ [][HealthNext]_vars

\* the health checker alone, enabled or not, unhealthy at the first failed
\* probe and healthy after one or two successes: the interval keeps firing
\* while it is set, and an upstream that is answering a probe goes on
\* answering it
RecoveryInit ==
    InitWith(Configs({"round-robin"}, {1}, {1}, Thresholds, BOOLEAN),
             Workload(Budget(0, MaxPasses + 1, 0, 1), "health"))
Fairness ==
    /\ WF_vars(Tick)
    /\ \A url \in Urls :
         WF_vars(ProbeFetchSettles(url)) /\ WF_vars(ProbeBodySettles(url))
RecoverySpec == RecoveryInit /\ [][HealthNext]_vars /\ Fairness

\* ------------------------------------------------------------- claims
\* What the claims call things, said without the model's operators.
Stepped(c) == calls'[c] # calls[c]

HealthyUrls == {endpoints[i].url : i \in {k \in 1..Len(endpoints) : endpoints[k].healthy}}

InPool(url) == \E i \in 1..Len(endpoints) : endpoints[i].url = url
InPoolNext(url) == \E i \in 1..Len(endpoints') : endpoints'[i].url = url

Field(url, f) == (CHOOSE e \in {endpoints[i] : i \in 1..Len(endpoints)} : e.url = url)[f]
FieldNext(url, f) == (CHOOSE e \in {endpoints'[i] : i \in 1..Len(endpoints')} : e.url = url)[f]

\* an aggregator-made error response carries data.aggregator
IsAggregatorError(response, message) ==
    /\ "data" \in DOMAIN response.error
    /\ response.error.message = message

\* the rate-limit errors among UpstreamErrors, as the documentation lists
\* them: code -32005 or -32016, or "rate limit" / "too many requests" in the
\* message in any letter case
ClaimedRateLimitErrors ==
    { ErrorNoMessage(-32005), ErrorObject(-32016, MsgReverted),
      ErrorObject(-32000, MsgRateLimitMixed), ErrorObject(429, MsgTooManyUpper) }

\* C1: a retry goes to another endpoint than the one that just failed,
\* whenever two or more endpoints are healthy
C1_RetryOnDifferentEndpoint ==
    [][\A c \in RequestId :
         (/\ calls[c].pc = "sleep"
          /\ calls'[c].pc = "fetch"
          /\ Cardinality(HealthyUrls) >= 2)
         => calls'[c].url # calls[c].url]_vars

\* the request's id, or null when it has none
ClaimedId(id) == IF id \in {Absent, Null} THEN Null ELSE id

\* C2: a call forwards at most retries+1 times, and the "Request failed
\* after all retries" error (aggregator:true, retriesExhausted:true, the
\* request's id or null) is returned only after exactly retries+1 forwards
C2_AttemptsBounded ==
    \A c \in RequestId :
        /\ calls[c].forwards <= config.retries + 1
        /\ (calls[c].pc = "done"
              /\ IsAggregatorError(calls[c].response, "Request failed after all retries"))
           => /\ calls[c].forwards = config.retries + 1
              /\ calls[c].response.error.code = -32603
              /\ calls[c].response.error.data.aggregator
              /\ calls[c].response.error.data.retriesExhausted
              /\ calls[c].response.id = ClaimedId(calls[c].id)

\* a call whose every attempt failed has returned the exhausted error,
\* here for a request without id and with retries > 0
C2_Witness ==
    \E c \in RequestId :
        /\ calls[c].pc = "done"
        /\ config.retries = 2
        /\ calls[c].forwards = 3
        /\ calls[c].id = Absent
        /\ IsAggregatorError(calls[c].response, "Request failed after all retries")

\* C3: when no endpoint is healthy at a selection (the first or a later
\* one), the call returns at once the "All RPC endpoints unavailable" error
\* with healthyEndpoints 0 and the request's id (null if absent): no forward,
\* no further delay, nothing recorded in the pool, one failed request. The
\* error is returned in no other case.
C3_NoEndpoint ==
    [][\A c \in RequestId :
         /\ (Stepped(c) /\ calls[c].pc \in {"idle", "sleep"} /\ HealthyUrls = {})
            => /\ calls'[c].pc = "done"
               /\ calls'[c].response =
                    [jsonrpc |-> "2.0",
                     error |-> [code |-> -32603,
                                message |-> "All RPC endpoints unavailable",
                                data |-> [aggregator |-> TRUE,
                                          retriesExhausted |-> TRUE,
                                          healthyEndpoints |-> 0]],
                     id |-> ClaimedId(calls'[c].id)]
               /\ calls'[c].forwards = calls[c].forwards
               /\ endpoints' = endpoints
               /\ failureCount' = failureCount + 1
               /\ successCount' = successCount
         /\ (/\ Stepped(c)
             /\ calls'[c].pc = "done"
             /\ IsAggregatorError(calls'[c].response, "All RPC endpoints unavailable"))
            => (calls[c].pc \in {"idle", "sleep"} /\ HealthyUrls = {})]_vars

\* a retry found no endpoint left: the call without id got the error with
\* id null after one forward
C3_Witness ==
    \E c \in RequestId :
        /\ calls[c].pc = "done"
        /\ calls[c].id = Absent
        /\ calls[c].forwards = 1
        /\ calls[c].attempt = 2
        /\ IsAggregatorError(calls[c].response, "All RPC endpoints unavailable")
        /\ calls[c].response.id = Null
        /\ failureCount = 1

\* a body that is passed through: a result, or an error object that is
\* not a rate-limit error
PassThrough(data) ==
    /\ data.isObject
    /\ \/ data.result # Absent /\ data.error.type = "absent"
       \/ data.error.type = "object" /\ data.error \notin ClaimedRateLimitErrors

RateLimited(data) ==
    data.isObject /\ data.error.type = "object" /\ data.error \in ClaimedRateLimitErrors

\* the endpoint of call c, if still in the pool, gets exactly ds more
\* successes and df more failures in this step
Recorded(c, ds, df) ==
    InPool(calls[c].url) =>
        /\ InPoolNext(calls[c].url)
        /\ FieldNext(calls[c].url, "successCount") = Field(calls[c].url, "successCount") + ds
        /\ FieldNext(calls[c].url, "failureCount") = Field(calls[c].url, "failureCount") + df

\* C4: a body with a result or with an error that is no rate-limit error is
\* returned as it is on that attempt, with one pool success and no pool
\* failure for the endpoint, and the request counts as successful
C4_PassThrough ==
    [][\A c \in RequestId :
         (/\ calls[c].pc = "body"
          /\ Stepped(c)
          /\ calls[c].reply.kind = "json"
          /\ PassThrough(calls[c].reply.data))
         => /\ calls'[c].pc = "done"
            /\ calls'[c].response = calls[c].reply.data
            /\ calls'[c].forwards = calls[c].forwards
            /\ Recorded(c, 1, 0)
            /\ successCount' = successCount + 1
            /\ failureCount' = failureCount]_vars

\* the pass-through scenario: "execution reverted" came back on the first
\* attempt and the endpoint has a success and no failure
C4_Witness ==
    \E c \in RequestId :
        /\ calls[c].pc = "done"
        /\ calls[c].forwards = 1
        /\ calls[c].response = RevertedBody
        /\ successCount = 1
        /\ \E i \in 1..Len(endpoints) :
              endpoints[i].successCount = 1 /\ endpoints[i].failureCount = 0

\* C5: a rate-limit error with attempts left is not returned: one failure
\* and no success is recorded and the call goes on to a fresh selection; a
\* result on a later attempt is returned with one success recorded; and no
\* other upstream error leads to a retry
C5_RateLimitRetry ==
    [][\A c \in RequestId :
         /\ (/\ calls[c].pc = "body"
             /\ Stepped(c)
             /\ calls[c].reply.kind = "json"
             /\ RateLimited(calls[c].reply.data)
             /\ calls[c].forwards < config.retries + 1)
            => /\ calls'[c].pc = "sleep"
               /\ Recorded(c, 0, 1)
               /\ successCount' = successCount
               /\ failureCount' = failureCount
         /\ (calls[c].pc = "sleep" /\ Stepped(c))
            => \/ /\ calls'[c].pc = "fetch"
                  /\ calls'[c].url \in HealthyUrls
                  /\ calls'[c].forwards = calls[c].forwards + 1
               \/ /\ calls'[c].pc = "done"
                  /\ HealthyUrls = {}
         /\ (/\ calls[c].pc = "body"
             /\ Stepped(c)
             /\ calls[c].forwards > 1
             /\ calls[c].reply = [kind |-> "json", data |-> ResultBody])
            => /\ calls'[c].response = ResultBody
               /\ Recorded(c, 1, 0)
         /\ (/\ calls[c].pc = "body"
             /\ Stepped(c)
             /\ calls[c].reply.kind = "json"
             /\ calls[c].reply.data.isObject
             /\ calls[c].reply.data.error.type = "object"
             /\ ~RateLimited(calls[c].reply.data))
            => calls'[c].pc # "sleep"]_vars

\* the failover scenario: the first attempt was rate limited (no transport
\* error was seen), the second returned the result
C5_Witness ==
    \E c \in RequestId :
        /\ calls[c].pc = "done"
        /\ calls[c].forwards = 2
        /\ calls[c].lastError = Null
        /\ calls[c].response = ResultBody
        /\ \E i, j \in 1..Len(endpoints) :
              /\ i # j
              /\ endpoints[i].failureCount = 1 /\ endpoints[i].successCount = 0
              /\ endpoints[j].successCount = 1 /\ endpoints[j].failureCount = 0

\* C6: a rate-limit error on the last permitted attempt is returned as it
\* is, not as the retries-exhausted error, and is recorded as a failure
C6_LastAttemptRateLimit ==
    [][\A c \in RequestId :
         (/\ calls[c].pc = "body"
          /\ Stepped(c)
          /\ calls[c].reply.kind = "json"
          /\ RateLimited(calls[c].reply.data)
          /\ calls[c].forwards = config.retries + 1)
         => /\ calls'[c].pc = "done"
            /\ calls'[c].response = calls[c].reply.data
            /\ InPool(calls[c].url) =>
                 FieldNext(calls[c].url, "failureCount")
                     = Field(calls[c].url, "failureCount") + 1]_vars

\* both attempts of a call were rate limited and the second error came back
C6_Witness ==
    \E c \in RequestId :
        /\ calls[c].pc = "done"
        /\ config.retries = 1
        /\ calls[c].forwards = 2
        /\ calls[c].lastError = Null
        /\ calls[c].response = Data(TRUE, "2.0", Absent, ErrorObject(429, MsgTooManyUpper))

\* what selectEndpoint can return, under any strategy, from the pool as the
\* step leaves it
SelectableNext ==
    {o.url : o \in UNION {selectEndpoint(strat, endpoints', currentIndex', currentWeight') :
                            strat \in Strategies}}

Selectable ==
    {o.url : o \in UNION {selectEndpoint(strat, endpoints, currentIndex, currentWeight) :
                            strat \in Strategies}}

\* the step recorded a failure against url / a success for url
FailureRecorded(url) ==
    /\ InPool(url) /\ InPoolNext(url)
    /\ FieldNext(url, "failureCount") = Field(url, "failureCount") + 1
SuccessRecorded(url) ==
    /\ InPool(url) /\ InPoolNext(url)
    /\ FieldNext(url, "successCount") = Field(url, "successCount") + 1

\* the step is POST /rpcs putting a fresh entry under url
ReAdded(url) ==
    /\ used'.adminOps = used.adminOps + 1
    /\ InPoolNext(url)
    /\ FieldNext(url, "failureCount") = 0 /\ FieldNext(url, "successCount") = 0
    /\ FieldNext(url, "consecutiveFailures") = 0
    /\ FieldNext(url, "consecutiveSuccesses") = 0

C8_AnyFailureMarksUnhealthy ==
    [][\A url \in Urls :
         (FailureRecorded(url)
            /\ FieldNext(url, "consecutiveFailures") >= config.unhealthyThreshold)
         => (~FieldNext(url, "healthy") /\ url \notin SelectableNext)]_vars

\* the step is one of a probe of url: it left an await
ProbeStepped(url) ==
    \E pc \in ProbePcs :
        /\ probes'[[url |-> url, pc |-> pc]] = probes[[url |-> url, pc |-> pc]] - 1
        /\ \A q \in ProbeStates : q.pc = "fetch" => probes'[q] <= probes[q]

\* C8, amended: a failure recorded by a health probe that leaves
\* consecutiveFailures at unhealthyThreshold or more leaves the endpoint
\* unhealthy and out of what selectEndpoint returns under every strategy; a
\* failure recorded by a router attempt leaves the healthy flag as it was.
C8_ProbeFailureMarksUnhealthy ==
    [][\A url \in Urls :
         /\ (FailureRecorded(url) /\ ProbeStepped(url)
               /\ FieldNext(url, "consecutiveFailures") >= config.unhealthyThreshold)
            => (~FieldNext(url, "healthy") /\ url \notin SelectableNext)
         /\ (FailureRecorded(url) /\ ~ProbeStepped(url))
            => FieldNext(url, "healthy") = Field(url, "healthy")]_vars

\* a probe has marked an endpoint unhealthy and a call is about to select
C8_Witness ==
    \E url \in Urls, c \in RequestId :
        /\ InPool(url)
        /\ ~Field(url, "healthy")
        /\ Field(url, "consecutiveFailures") >= config.unhealthyThreshold
        /\ HealthyUrls # {}
        /\ calls[c].pc = "sleep"
        /\ url \notin Selectable

\* the step is a check pass: the one start() runs or one the interval fires
CheckPass == used'.passes = used.passes + 1

\* url is out of rotation with n failures recorded, the interval is set and
\* has as many passes to come as recovery takes
Down(url, n) ==
    /\ InPool(url)
    /\ ~Field(url, "healthy")
    /\ Field(url, "failureCount") = n
    /\ intervalId
    /\ workload.passes - used.passes >= config.healthyThreshold

\* url is back among what selectEndpoint returns with its
\* consecutiveSuccesses at healthyThreshold or more; or a further failure
\* was recorded against it, or the checker was stopped
Recovered(url, n) ==
    \/ /\ InPool(url)
       /\ Field(url, "healthy")
       /\ Field(url, "consecutiveSuccesses") >= config.healthyThreshold
       /\ url \in Selectable
    \/ InPool(url) /\ Field(url, "failureCount") > n
    \/ ~intervalId

\* C9: every check pass starts a probe of every endpoint in the pool,
\* unhealthy ones included; and an unhealthy endpoint with passes to come and
\* no further failure recorded against it is eventually healthy again, with
\* consecutiveSuccesses at healthyThreshold or more, and among what
\* selectEndpoint returns.
C9_ProbedAndRecovered ==
    /\ [][CheckPass =>
            \A url \in Urls :
                InPool(url) =>
                    probes'[[url |-> url, pc |-> "fetch"]]
                        = probes[[url |-> url, pc |-> "fetch"]] + 1]_vars
    /\ \A url \in Urls, n \in 1..MaxPasses : Down(url, n) ~> Recovered(url, n)

\* marked unhealthy at its first failed probe, the endpoint is healthy again
\* after two successful ones
C9_Witness ==
    /\ config.unhealthyThreshold = 1
    /\ config.healthyThreshold = 2
    /\ \E url \in Urls :
         /\ InPool(url)
         /\ Field(url, "healthy")
         /\ Field(url, "failureCount") = 1
         /\ Field(url, "successCount") = 2
         /\ Field(url, "consecutiveSuccesses") = 2
         /\ url \in Selectable

\* C10 as stated: every call to an upstream, a forward or a probe, has its
\* abort timer armed for as long as it is in flight, the reading of the
\* response body included.
C10_DeadlineCoversCall ==
    /\ \A c \in RequestId : calls[c].pc \in {"fetch", "body"} => calls[c].timer
    /\ \A p \in ProbeStates : probes[p] > 0 => ProbeTimer(p.pc)

\* ---------------------------------------------------------------- batches
\* the response is one the aggregator made up, not an upstream's body
AggregatorMade(response) == "data" \in DOMAIN response.error

\* the routeSingle invocations of the batch's elements, by position
ElementCalls == [i \in DOMAIN batch.ids |-> calls[ElementCall(batch, i)]]

\* C11: the array a batch resolves with has one response per request, and
\* the response at position i is the one the i-th request's routeSingle
\* invocation returned, whatever the order in which the invocations (and
\* their retries) came to an end.
C11_BatchAligned ==
    batch.pc = "done" =>
        /\ Len(batch.responses) = Len(batch.ids)
        /\ \A i \in DOMAIN batch.ids :
              /\ ElementCalls[i].id = batch.ids[i]
              /\ ElementCalls[i].pc = "done"
              /\ batch.responses[i] = ElementCalls[i].response
              /\ AggregatorMade(batch.responses[i]) =>
                    batch.responses[i].id = IdOrNull(batch.ids[i])

\* a batch of two: the first element ran out of retries after two forwards,
\* the second got its result at the first one, and the array has the error
\* first and the result second
C11_Witness ==
    /\ batch.pc = "done"
    /\ Len(batch.ids) = 2
    /\ ElementCalls[1].forwards = 2
    /\ ElementCalls[2].forwards = 1
    /\ IsAggregatorError(batch.responses[1], "Request failed after all retries")
    /\ batch.responses[2] = ResultBody

\* every element of a routed batch has a routeSingle invocation of its own
Dispatched ==
    batch.pc # "none" =>
        \A i \in DOMAIN batch.ids :
            /\ ElementCalls[i].pc # "idle"
            /\ ElementCalls[i].id = batch.ids[i]

\* the batch resolves only when every element has returned, with each
\* settled position holding its own element's response
OwnResponses ==
    /\ batch.pc = "done" => batch.settled = DOMAIN batch.ids
    /\ \A i \in batch.settled :
          /\ ElementCalls[i].pc = "done"
          /\ batch.responses[i] = ElementCalls[i].response

\* invocation c returns an aggregator error in this step
EndsInAggregatorError(c) ==
    /\ calls[c].pc # "done"
    /\ calls'[c].pc = "done"
    /\ AggregatorMade(calls'[c].response)

\* the step of an invocation that returns an aggregator error changes no
\* other invocation under way; returned responses and settled positions stay
Isolated ==
    /\ \A c \in RequestId :
          EndsInAggregatorError(c) =>
              \A d \in RequestId \ {c} :
                  calls[d].pc # "idle" => calls'[d] = calls[d]
    /\ \A e \in RequestId : calls[e].pc = "done" => calls'[e] = calls[e]
    /\ \A i \in batch.settled :
          /\ i \in batch'.settled
          /\ batch'.responses[i] = batch.responses[i]

\* C12: every element of a batch is dispatched and yields its own response.
\* The step in which one invocation returns an aggregator error changes no
\* other invocation under way; a returned response and a settled position
\* of the array never change; the batch resolves only when every element
\* has returned.
C12_SiblingsIsolated ==
    /\ [](Dispatched /\ OwnResponses)
    /\ [][Isolated]_vars

\* a resolved batch of two with both aggregator errors beside each other:
\* one element ran out of retries, the other found no endpoint at its retry
C12_Witness ==
    /\ batch.pc = "done"
    /\ Len(batch.ids) = 2
    /\ \E i, j \in DOMAIN batch.ids :
          /\ IsAggregatorError(batch.responses[i], "Request failed after all retries")
          /\ IsAggregatorError(batch.responses[j], "All RPC endpoints unavailable")
          /\ ElementCalls[j].forwards = 1

C14_StreaksExclusive ==
    \A i \in 1..Len(endpoints) :
        ~(endpoints[i].consecutiveSuccesses > 0 /\ endpoints[i].consecutiveFailures > 0)

\* an endpoint whose run of successes was ended by a failure, and one whose
\* run of failures was ended by a success
C14_Witness ==
    /\ \E i \in 1..Len(endpoints) :
          /\ endpoints[i].successCount > 0
          /\ endpoints[i].consecutiveFailures > 0
    /\ \E j \in 1..Len(endpoints) :
          /\ endpoints[j].failureCount > 0
          /\ endpoints[j].consecutiveSuccesses > 0

\* -------------------------------------------------------------- balancer
\* the urls of a list of endpoints, in order
UrlsIn(eps) == [i \in DOMAIN eps |-> eps[i].url]

\* C15 as stated: every selectEndpoint call, under every strategy, returns
\* none exactly when no endpoint of the pool is healthy at the call, and
\* otherwise returns an endpoint that is in the pool and healthy then.
C15_SelectsHealthy ==
    \A i \in DOMAIN selected :
        /\ selected[i].url = Null <=> selected[i].healthy = << >>
        /\ selected[i].url # Null =>
              \E j \in DOMAIN selected[i].healthy :
                  selected[i].healthy[j].url = selected[i].url

\* the calls i .. i+k-1 saw the same k healthy endpoints in the same order
SameHealthy(i, k) ==
    /\ k > 0
    /\ i + k - 1 <= Len(selected)
    /\ \A j \in i..(i + k - 1) :
          /\ Len(selected[j].healthy) = k
          /\ UrlsIn(selected[j].healthy) = UrlsIn(selected[i].healthy)

\* C16: round-robin with k healthy endpoints: any k consecutive calls
\* between which the healthy endpoints do not change return every one of
\* them, hence each exactly once, wherever the cursor stood before.
C16_RoundRobinCycle ==
    config.strategy = "round-robin" =>
        \A i \in DOMAIN selected, k \in 1..Len(MoreUrls) :
            SameHealthy(i, k) =>
                {selected[j].url : j \in i..(i + k - 1)}
                    = {selected[i].healthy[j].url : j \in 1..k}

\* two calls on three healthy endpoints left the cursor at 2; one endpoint
\* was marked unhealthy; the next two calls returned the two left
C16_Witness ==
    /\ config.strategy = "round-robin"
    /\ Len(selected) = 4
    /\ Len(selected[1].healthy) = 3
    /\ Len(selected[2].healthy) = 3
    /\ SameHealthy(3, 2)
    /\ selected[3].url # selected[4].url

RECURSIVE SumOfWeights(_)
SumOfWeights(eps) ==
    IF eps = << >> THEN 0 ELSE Head(eps).weight + SumOfWeights(Tail(eps))

\* how many of the calls returned url
TimesSelected(url) == Cardinality({i \in DOMAIN selected : selected[i].url = url})

\* C17: weighted round-robin from a fresh balancer, on endpoints with
\* positive integer weights that all stay healthy: after N calls, N a
\* multiple of the sum of the weights, endpoint i was returned
\* N * wi / sum(w) times.
C17_WeightedShare ==
    LET N == Len(selected)
        sum == SumOfWeights(endpoints)
    IN (/\ config.strategy = "weighted-round-robin"
        /\ N > 0
        /\ \A i \in DOMAIN selected : selected[i].healthy = endpoints
        /\ \A j \in DOMAIN endpoints : endpoints[j].weight >= 1
        /\ N % sum = 0)
       => \A j \in DOMAIN endpoints :
             TimesSelected(endpoints[j].url) * sum = N * endpoints[j].weight

\* weights 1, 2, 1: after twice four calls the counts are 2, 4 and 2
C17_Witness ==
    /\ Len(endpoints) = 3
    /\ endpoints[1].weight = 1
    /\ endpoints[2].weight = 2
    /\ endpoints[3].weight = 1
    /\ Len(selected) = 2 * SumOfWeights(endpoints)
    /\ TimesSelected(endpoints[1].url) = 2
    /\ TimesSelected(endpoints[2].url) = 4
    /\ TimesSelected(endpoints[3].url) = 2

\* the healthy endpoint a call returned, as it was at the call
Chosen(i) ==
    CHOOSE e \in {selected[i].healthy[j] : j \in DOMAIN selected[i].healthy} :
        e.url = selected[i].url

\* C18: the latency-based strategy returns, of the endpoints healthy at the
\* call, one whose avgResponseTime is the smallest of those above zero; one
\* without samples is returned only when no healthy endpoint has samples.
\* Every call goes by the values at that call.
C18_FastestSampled ==
    config.strategy = "latency-based" =>
        \A i \in DOMAIN selected :
            LET healthy == selected[i].healthy
                sampled == {j \in DOMAIN healthy : ~IsZero(healthy[j].avgResponseTime)}
            IN (healthy # << >> /\ sampled # {}) =>
                   /\ ~IsZero(Chosen(i).avgResponseTime)
                   /\ \A j \in sampled :
                         ~Less(healthy[j].avgResponseTime, Chosen(i).avgResponseTime)

\* the first call returned the one sampled endpoint, beside one without
\* samples; then another endpoint was sampled faster, and the second call
\* returned that one
C18_Witness ==
    /\ config.strategy = "latency-based"
    /\ Len(selected) = 2
    /\ selected[1].url # Null
    /\ selected[2].url # Null
    /\ ~IsZero(Chosen(1).avgResponseTime)
    /\ \E j \in DOMAIN selected[1].healthy :
          IsZero(selected[1].healthy[j].avgResponseTime)
    /\ selected[2].url # selected[1].url
    /\ \E j \in DOMAIN selected[2].healthy :
          /\ selected[2].healthy[j].url = selected[1].url
          /\ Less(Chosen(2).avgResponseTime, selected[2].healthy[j].avgResponseTime)

\* ------------------------------------------------------------- snapshots
\* C19 as stated: what getAllEndpoints / getHealthyEndpoints returned is a
\* snapshot: whatever is done to the pool afterwards, the holder finds the
\* same endpoints in it, and every field of each as it was at the call.
C19_SnapshotIsolated ==
    \A i \in DOMAIN snapshot.refs :
        /\ snapshot.refs[i].url = snapshot.refs[i].taken.url
        /\ Observed(snapshot, endpoints, i) = snapshot.refs[i].taken

\* C20 as stated: every endpoint of the pool has a weight that is a
\* positive integer, those of the configuration and those added by
\* POST /rpcs alike.
C20_WeightsPositive ==
    \A i \in DOMAIN endpoints :
        /\ endpoints[i].weight # NotANumber
        /\ endpoints[i].weight >= 1

\* ------------------------------------------------------------ pool records
RecordsOf(eps, url) == { i \in DOMAIN eps : eps[i].url = url }

\* the record a call of addEndpoint leaves under the url
FreshIn(eps, url) ==
    /\ Cardinality(RecordsOf(eps, url)) = 1
    /\ LET e == getEndpoint(eps, url)
       IN /\ e.healthy
          /\ e.successCount = 0 /\ e.failureCount = 0
          /\ e.consecutiveSuccesses = 0 /\ e.consecutiveFailures = 0
          /\ IsZero(e.avgResponseTime)

AddedAgain(url) ==
    /\ FreshIn(endpoints', url)
    /\ Len(endpoints') = IF has(endpoints, url) THEN Len(endpoints)
                         ELSE Len(endpoints) + 1
    /\ LET e == getEndpoint(endpoints', url)
       IN addEndpoint(endpoints', [url |-> url, weight |-> e.weight]) = endpoints'

\* C21: whatever the pool held under the url, healthy or not, with samples
\* or without, a POST /rpcs for it leaves exactly one record under the url,
\* healthy and with every counter and the average at zero; the pool grows
\* by one only when the url was new; adding the same endpoint once more
\* changes nothing.
C21_AddResets ==
    [][\A i \in DOMAIN MoreUrls, weight \in WeightsOf(workload.profile) :
          handleAddRpc(MoreUrls[i], weight) => AddedAgain(MoreUrls[i])]_vars

\* an unhealthy endpoint with a sample was added again: the holder of an
\* earlier array still has the old record, the pool a fresh one
C21_Witness ==
    \E i \in DOMAIN snapshot.refs :
        LET ref == snapshot.refs[i]
        IN /\ ~ref.live
           /\ ~ref.object.healthy
           /\ ref.object.successCount > 0
           /\ has(endpoints, ref.url)
           /\ FreshIn(endpoints, ref.url)

\* what each mutator does with a url, on the pool as it is
UnknownUrlIgnored(url) ==
    /\ \A responseTime \in Durations :
          recordSuccess(endpoints, url, responseTime) = endpoints
    /\ recordFailure(endpoints, url) = endpoints
    /\ markHealthy(endpoints, url) = endpoints
    /\ markUnhealthy(endpoints, url) = endpoints
    /\ removeEndpoint(endpoints, url) = endpoints
    /\ ~removeEndpointReturns(endpoints, url)

KnownUrlRemoved(url) ==
    /\ removeEndpointReturns(endpoints, url)
    /\ ~has(removeEndpoint(endpoints, url), url)
    /\ Len(removeEndpoint(endpoints, url)) = Len(endpoints) - 1

\* an attempt or a probe completes for a url the pool no longer holds
CompletesLate ==
    \/ \E c \in RequestId :
          /\ Stepped(c)
          /\ calls[c].pc \in {"fetch", "body"}
          /\ ~has(endpoints, calls[c].url)
    \/ \E url \in Urls : ProbeStepped(url) /\ ~has(endpoints, url)

\* C22: on a url the pool does not hold, recordSuccess, recordFailure,
\* markHealthy and markUnhealthy return the pool as it is and removeEndpoint
\* answers false and changes nothing; on a url it holds removeEndpoint
\* answers true and the record is gone. A router attempt or a probe that
\* completes after its endpoint was removed leaves the whole pool as it is,
\* and DELETE /rpcs for an unknown url does too.
C22_UnknownUrlNoOp ==
    /\ [](\A url \in AllUrls :
             IF has(endpoints, url) THEN KnownUrlRemoved(url)
             ELSE UnknownUrlIgnored(url))
    /\ [][/\ CompletesLate => endpoints' = endpoints
          /\ \A url \in Urls :
                handleRemoveRpc(url) /\ ~has(endpoints, url)
                    => endpoints' = endpoints]_vars

\* a call of a mutator found no record under a url that was deleted, and
\* the pool holds the other endpoint as before
C22_Witness ==
    \E url \in Urls :
        /\ history[url].missed
        /\ history[url].deleted
        /\ ~has(endpoints, url)
        /\ Len(endpoints) = 1

\* ---------------------------------------------------------- health checker
InFlight(url) == probes[[url |-> url, pc |-> "fetch"]]
InFlightNext(url) == probes'[[url |-> url, pc |-> "fetch"]]

\* one checkEndpoint more for every endpoint of the pool
PassLaunched ==
    \A url \in Urls :
        InFlightNext(url) = InFlight(url) + (IF has(endpoints, url) THEN 1 ELSE 0)

CheckerUntouched == UNCHANGED << isRunning, intervalId, timers, probes, endpoints >>

\* C23: the checker is stopped at first, and running or stopped ever
\* after. start() on a disabled or a running checker changes nothing;
\* otherwise the checker is running, a probe is under way for every
\* endpoint and one more timer is armed. stop() leaves the checker stopped
\* with no timer, and changes nothing when it was stopped. At most one
\* timer is armed at any time, and none while the checker is stopped.
C23_Lifecycle ==
    /\ ~isRunning /\ timers = 0
    /\ [](/\ isRunning \in BOOLEAN
          /\ timers \in {0, 1}
          /\ timers = 1 => isRunning)
    /\ [][/\ Start /\ (~config.enabled \/ isRunning) => CheckerUntouched
          /\ Start /\ config.enabled /\ ~isRunning =>
                isRunning' /\ timers' = 1 /\ PassLaunched
          /\ Stop => ~isRunning' /\ timers' = 0
          /\ Stop /\ ~isRunning => CheckerUntouched]_vars

\* started, stopped and started again: running, with the one timer of the
\* second start and the passes of both starts launched
C23_Witness ==
    /\ used.lifecycleOps >= 3
    /\ used.passes >= 2
    /\ isRunning
    /\ timers = 1

\* C24: while the checker is stopped no timer is armed, and from stop() to
\* the next start() that takes effect no pass is started and no
\* checkEndpoint is begun for any endpoint; the probes that were under way
\* may still complete.
C24_QuietAfterStop ==
    /\ [](~isRunning => timers = 0)
    /\ [][~isRunning /\ ~isRunning' =>
             /\ used'.passes = used.passes
             /\ \A url \in Urls : InFlightNext(url) <= InFlight(url)]_vars

\* the checker ran a pass, was stopped with passes still to come, and its
\* probes have all completed
C24_Witness ==
    /\ ~isRunning
    /\ used.passes >= 1
    /\ used.passes < workload.passes
    /\ used.lifecycleOps >= 2
    /\ \A p \in ProbeStates : probes[p] = 0

\* ------------------------------------------------------------- log lines
LoggedNow(url, line) == history'[url][line] - history[url][line]

\* the step turns the endpoint from unhealthy to healthy, and not by
\* putting a new record in its place
Recovers(url) ==
    /\ InPool(url) /\ InPoolNext(url)
    /\ ~Field(url, "healthy") /\ FieldNext(url, "healthy")
    /\ used'.adminOps = used.adminOps

\* the step is a probe's failure that leaves the endpoint's run of
\* failures at the threshold or above: markUnhealthy is called
MarksUnhealthy(url) ==
    /\ ProbeStepped(url)
    /\ FailureRecorded(url)
    /\ FieldNext(url, "consecutiveFailures") >= config.unhealthyThreshold

\* C25: a step logs "RPC recovered" for an endpoint once if markHealthy
\* turns it from unhealthy to healthy in that step, and not at all
\* otherwise (markHealthy on a healthy endpoint included), so that the
\* recovered lines of an endpoint count its recoveries; every call of
\* markUnhealthy logs "RPC marked unhealthy" once, whether the endpoint was
\* healthy or not, and leaves it unhealthy.
C25_RecoveredOncePerRecovery ==
    [][\A url \in Urls :
          /\ LoggedNow(url, "recovered") = (IF Recovers(url) THEN 1 ELSE 0)
          /\ LoggedNow(url, "unhealthy") = (IF MarksUnhealthy(url) THEN 1 ELSE 0)
          /\ MarksUnhealthy(url) => ~FieldNext(url, "healthy")]_vars

\* an endpoint was marked unhealthy and recovered, while the other one was
\* marked healthy by its probes without ever having been unhealthy
C25_Witness ==
    \E url \in Urls, other \in Urls :
        /\ url # other
        /\ history[url].unhealthy >= 1
        /\ history[url].recovered = 1
        /\ has(endpoints, url) /\ getEndpoint(endpoints, url).healthy
        /\ has(endpoints, other)
        /\ getEndpoint(endpoints, other).consecutiveSuccesses >= 2
        /\ history[other].recovered = 0

\* ------------------------------------------------------- failed attempts
\* the step ends an attempt of the call in a thrown forwardRequest: the
\* fetch rejected, timed out or answered with a status that is not ok, or
\* the body was not JSON, not an object, or had neither result nor error
TransportFailure(c) ==
    /\ Stepped(c)
    /\ \/ calls[c].pc = "fetch" /\ calls'[c].pc # "body"
       \/ /\ calls[c].pc = "body"
          /\ \/ calls[c].reply.kind = "malformed"
             \/ ~calls[c].reply.data.isObject
             \/ /\ calls[c].reply.data.result = Absent
                /\ calls[c].reply.data.error.type = "absent"

\* the step leaves the record of every url outside urls as it is
OnlyTouches(urls) ==
    \A url \in AllUrls \ urls :
        /\ has(endpoints', url) <=> has(endpoints, url)
        /\ has(endpoints, url) =>
              getEndpoint(endpoints', url) = getEndpoint(endpoints, url)

RECURSIVE TotalFailures(_)
TotalFailures(eps) ==
    IF eps = << >> THEN 0 ELSE Head(eps).failureCount + TotalFailures(Tail(eps))

Exhausted(c) ==
    /\ calls[c].pc = "done"
    /\ IsAggregatorError(calls[c].response, "Request failed after all retries")

\* the step is the call's last attempt failing
Exhausts(c) ==
    /\ Stepped(c)
    /\ calls'[c].pc = "done"
    /\ IsAggregatorError(calls'[c].response, "Request failed after all retries")

NoneDeleted == \A url \in Urls : ~history[url].deleted
NoneReplaced == \A url \in Urls : ~history[url].replaced

\* C26 as stated: when the one call has used up its attempts, and no
\* endpoint was removed up to then, the failureCounts of the pool add up to
\* retries + 1.
C26_FailuresSumUnlessRemoved ==
    [][\A c \in RequestId :
          Exhausts(c) /\ NoneDeleted =>
              TotalFailures(endpoints') = config.retries + 1]_vars

\* C26: an attempt that ends in a thrown forwardRequest adds one to the
\* failureCount of the endpoint it was sent to (if the pool still holds
\* it), leaves its successCount, and leaves every other record as it is;
\* when the one call has used up its attempts, and no endpoint was removed
\* or added again up to then, the failureCounts of the pool add up to
\* retries + 1.
C26_FailurePerAttempt ==
    [][\A c \in RequestId :
          /\ TransportFailure(c) =>
                Recorded(c, 0, 1) /\ OnlyTouches({calls[c].url})
          /\ Exhausts(c) /\ NoneDeleted /\ NoneReplaced =>
                TotalFailures(endpoints') = config.retries + 1]_vars

\* three attempts failed, on both endpoints, with the pool left alone
C26_Witness ==
    \E c \in RequestId :
        /\ Exhausted(c)
        /\ NoneDeleted /\ NoneReplaced
        /\ calls[c].forwards = 3
        /\ TotalFailures(endpoints) = 3
        /\ \A i \in DOMAIN endpoints : endpoints[i].failureCount >= 1

\* ---------------------------------------------------------- lost updates
\* C27: for every endpoint of the pool, successCount is the number of
\* recordSuccess calls and failureCount the number of recordFailure calls
\* made for its url since its record was put in the pool, whichever of the
\* router's attempts and the checker's probes made them and in whatever
\* order they completed.
C27_NoLostUpdate ==
    \A i \in DOMAIN endpoints :
        /\ endpoints[i].successCount = history[endpoints[i].url].recordSuccess
        /\ endpoints[i].failureCount = history[endpoints[i].url].recordFailure

\* an endpoint that was never replaced or deleted has three outcomes
\* recorded, successes and failures, from an attempt and from probes
C27_Witness ==
    \E i \in DOMAIN endpoints :
        LET e == endpoints[i]
        IN /\ ~history[e.url].replaced /\ ~history[e.url].deleted
           /\ e.successCount >= 1
           /\ e.failureCount >= 1
           /\ e.successCount + e.failureCount >= 3
           /\ \E c \in RequestId : calls[c].forwards = 2

\* ------------------------------------------------------- other endpoints
\* the urls whose record the step changes, makes or deletes
Touched ==
    { url \in AllUrls :
        \/ has(endpoints', url) # has(endpoints, url)
        \/ /\ has(endpoints, url)
           /\ getEndpoint(endpoints', url) # getEndpoint(endpoints, url) }

\* C28: a step of a router attempt changes no record but that of the
\* endpoint the attempt was sent to, a step of a probe none but that of
\* the probed endpoint, POST /rpcs and DELETE /rpcs none but that of their
\* url; whatever the step, at most one url's record is changed, made or
\* deleted.
C28_OtherRecordsKept ==
    [][\/ endpoints' = endpoints
       \/ LET touched == Touched
          IN /\ Cardinality(touched) <= 1
             /\ \A c \in RequestId : Stepped(c) => touched \subseteq {calls[c].url}
             /\ \A url \in Urls : ProbeStepped(url) => touched \subseteq {url}
             /\ used'.adminOps # used.adminOps =>
                   \A url \in Urls :
                       /\ handleRemoveRpc(url) => touched \subseteq {url}
                       /\ \A weight \in WeightsOf(workload.profile) :
                             handleAddRpc(url, weight) => touched \subseteq {url}]_vars

\* one endpoint failed its probes and is unhealthy, the other one has its
\* successes, its health and its run of successes
C28_Witness ==
    \E url \in Urls, other \in Urls :
        /\ url # other
        /\ has(endpoints, url) /\ has(endpoints, other)
        /\ ~getEndpoint(endpoints, url).healthy
        /\ getEndpoint(endpoints, url).failureCount >= 2
        /\ getEndpoint(endpoints, other).healthy
        /\ getEndpoint(endpoints, other).failureCount = 0
        /\ getEndpoint(endpoints, other).consecutiveSuccesses >= 2

\* ------------------------------------------------------------- rotation
\* the step leaves the healthy flag of every endpoint it keeps as it was
FlagsKept ==
    \A url \in AllUrls :
        has(endpoints, url) /\ has(endpoints', url) =>
            getEndpoint(endpoints', url).healthy = getEndpoint(endpoints, url).healthy

\* POST /rpcs put a new record under the url
AddedNow(url) ==
    /\ used'.adminOps # used.adminOps
    /\ has(endpoints', url)
    /\ FreshIn(endpoints', url)

\* no timer of the checker is armed and no probe is under way
Quiet == timers = 0 /\ \A p \in ProbeStates : probes[p] = 0

\* C29: no step of a routeSingle call changes the healthy flag of any
\* endpoint; a step that changes an endpoint's flag is the completion of a
\* probe of that endpoint or a POST /rpcs for it; so from a state where
\* the checker has no timer armed and no probe under way, no step but an
\* admin's changes a flag, whatever failures the router records.
C29_RouterKeepsFlags ==
    [][/\ \A c \in RequestId : Stepped(c) => FlagsKept
       /\ \A url \in Urls :
             /\ has(endpoints, url) /\ has(endpoints', url)
             /\ getEndpoint(endpoints', url).healthy # getEndpoint(endpoints, url).healthy
             => ProbeStepped(url) \/ AddedNow(url)
       /\ Quiet /\ used'.adminOps = used.adminOps => FlagsKept]_vars

\* with the checker disabled or stopped and no probe under way, an
\* endpoint whose run of failures has reached the threshold through the
\* router's attempts is healthy and was never marked unhealthy
C29_Witness ==
    /\ Quiet
    /\ \E url \in Urls :
          /\ has(endpoints, url)
          /\ getEndpoint(endpoints, url).healthy
          /\ getEndpoint(endpoints, url).consecutiveFailures >= config.unhealthyThreshold
          /\ history[url].unhealthy = 0
          /\ ~history[url].replaced

\* ---------------------------------------------------------------- stats
\* the routeSingle calls that have begun and not returned
CallsInFlight == { c \in RequestId : calls[c].pc \notin {"idle", "done"} }

\* C30: successfulRequests and failedRequests of getStats() add up to
\* totalRequests less the routeSingle calls that have not returned yet:
\* never more than totalRequests, and exactly totalRequests when no call
\* is under way.
C30_StatsAddUp ==
    /\ successCount + failureCount + Cardinality(CallsInFlight) = requestCount
    /\ successCount + failureCount <= requestCount
    /\ CallsInFlight = {} => successCount + failureCount = requestCount

\* two calls were begun: one has returned, as a success or a failure, and
\* one is between its attempts
C30_Witness ==
    /\ requestCount = 2
    /\ successCount + failureCount = 1
    /\ \E c \in RequestId : calls[c].pc = "sleep"
    /\ \E c \in RequestId : calls[c].pc = "done"

\* ------------------------------------------- rate limit on the last attempt
\* the body that settles for call c is classified as a rate limit by
\* isRateLimitError and no attempt is left
LastAttemptRateLimited(c) ==
    /\ calls[c].pc = "body"
    /\ Stepped(c)
    /\ calls[c].reply.kind = "json"
    /\ calls[c].reply.data.isObject
    /\ calls[c].reply.data.error.type = "object"
    /\ isRateLimitError(calls[c].reply.data.error)
    /\ calls[c].attempt = maxAttempts(config)

\* C31: a rate-limit error on the last permitted attempt is recorded on
\* the endpoint as a failure and then as a success: failureCount and
\* successCount each rise by one, the endpoint is left with
\* consecutiveFailures = 0 and consecutiveSuccesses = 1, and the router
\* counts the request as successful, not as failed.
C31_FailureThenSuccess ==
    [][\A c \in RequestId :
         LastAttemptRateLimited(c)
         => /\ calls'[c].pc = "done"
            /\ calls'[c].response = calls[c].reply.data
            /\ successCount' = successCount + 1
            /\ failureCount' = failureCount
            /\ Recorded(c, 1, 1)
            /\ InPool(calls[c].url) =>
                 /\ FieldNext(calls[c].url, "consecutiveFailures") = 0
                 /\ FieldNext(calls[c].url, "consecutiveSuccesses") = 1]_vars

\* a call has returned the rate-limit error of its last attempt; the
\* endpoint of that attempt failed an earlier attempt too, and now has two
\* failures, one success and no failure streak
C31_Witness ==
    /\ successCount = 1
    /\ failureCount = 0
    /\ \E c \in RequestId :
          /\ calls[c].pc = "done"
          /\ calls[c].forwards = maxAttempts(config)
          /\ calls[c].response = RateLimitBody
    /\ \E url \in Urls :
          /\ InPool(url)
          /\ Field(url, "failureCount") = 2
          /\ Field(url, "successCount") = 1
          /\ Field(url, "consecutiveFailures") = 0
          /\ Field(url, "consecutiveSuccesses") = 1

\* ------------------------------------------ weighted round-robin terminates
\* every weight of the list is a whole number of 1 or more
WholeWeights(healthy) ==
    \A j \in DOMAIN healthy :
        healthy[j].weight # NotANumber /\ healthy[j].weight >= 1

\* C32 as stated: a call of the weighted round-robin selectEndpoint that
\* finds a healthy endpoint, all weights being integers of 1 or more,
\* ends and returns one of the endpoints healthy at the call, whatever
\* index and currentWeight the calls before it left behind.
C32_WeightedTerminates ==
    \A i \in DOMAIN selected :
        (selected[i].healthy # << >> /\ WholeWeights(selected[i].healthy))
        => /\ selected[i].url # "diverged"
           /\ \E j \in DOMAIN selected[i].healthy :
                  selected[i].healthy[j].url = selected[i].url

====
